---- MODULE Spec2Model ----
(***************************************************************************)
(* PrometheusAI (src/app.py): the response-assembly pipeline of the chat   *)
(* backend.  The two chat handlers (/api/chat and /api/chat/stream), the   *)
(* augmentation trigger, the search orchestrator, the prompt composer and  *)
(* the model client (blocking and streaming) are modelled as one state     *)
(* machine; the network peers (search engines, scraped sites, the model    *)
(* endpoint, the browser reading a stream) are the environment and answer  *)
(* nondeterministically.  The session routes (/api/chats, /api/new-chat,   *)
(* /api/chats/<chat_id>) and concurrent calls of the model client have     *)
(* specifications of their own.                                            *)
(*                                                                         *)
(* Text.  A string is a sequence of text units.  A unit is one character   *)
(* (a one-character TLA+ string, or one of the three named code points     *)
(* below); a literal of the source that the program only concatenates and  *)
(* never slices, searches or measures is carried as a single unit holding  *)
(* the literal.                                                            *)
(***************************************************************************)
EXTENDS Integers, Sequences, FiniteSets, TLC

(***************************************************************************)
(* Bounds of the model.                                                    *)
(***************************************************************************)
\* chat requests handled in one run
MaxRequests == 1
\* calls made directly on the model client in one run
MaxCalls == 2
\* exchanges (a user turn and its answer) of the session found on disk at
\* start-up
MaxExchanges == 7
\* lines of a streamed model response
MaxLines == 3
\* threads inside query_lm_studio at the same time
MaxThreads == 2
\* requests to the session routes (new, list, get, delete) in one run
MaxOps == 2

(***************************************************************************)
(* Program constants.                                                      *)
(***************************************************************************)
HistoryLimit == 10
ExcerptCap == 1500
TitleCap == 50
NumUrls == 2
BasicLimit == 65536

(***************************************************************************)
(* Characters.                                                             *)
(***************************************************************************)
ReplacementChar == "U+FFFD"
AstralChar == "U+1F600"
\* a UTF-16 surrogate on its own, as json.loads makes of "\ud800"
LoneSurrogate == "U+D800"

Upper == <<"A","B","C","D","E","F","G","H","I","J","K","L","M",
           "N","O","P","Q","R","S","T","U","V","W","X","Y","Z">>
Lowers == <<"a","b","c","d","e","f","g","h","i","j","k","l","m",
            "n","o","p","q","r","s","t","u","v","w","x","y","z">>

Whitespace == {" ", "\n", "\t"}

\* ord(char): the code point.  Letters follow ASCII; every other unit of
\* the model except the named code points is taken for a blank.
Ord(c) ==
    IF c = ReplacementChar THEN 65533
    ELSE IF c = AstralChar THEN 128512
    ELSE IF c = LoneSurrogate THEN 55296
    ELSE IF \E i \in 1..26 : Upper[i] = c
         THEN 64 + (CHOOSE i \in 1..26 : Upper[i] = c)
    ELSE IF \E i \in 1..26 : Lowers[i] = c
         THEN 96 + (CHOOSE i \in 1..26 : Lowers[i] = c)
    ELSE 32

\* str.lower() on one character
LowerChar(c) ==
    IF Ord(c) >= 65 /\ Ord(c) <= 90 THEN Lowers[Ord(c) - 64] ELSE c

\* str.lower()
Lower(s) == [i \in 1..Len(s) |-> LowerChar(s[i])]

\* `needle in haystack`
Contains(s, w) ==
    \E i \in 1..(Len(s) - Len(w) + 1) : SubSeq(s, i, i + Len(w) - 1) = w

\* s[:n]
Prefix(s, n) == SubSeq(s, 1, IF n < Len(s) THEN n ELSE Len(s))

\* s[:n], n of either sign
Slice(s, n) ==
    IF n >= 0 THEN Prefix(s, n)
    ELSE Prefix(s, IF Len(s) + n > 0 THEN Len(s) + n ELSE 0)

\* s[-n:]
LastN(s, n) == SubSeq(s, IF Len(s) > n THEN Len(s) - n + 1 ELSE 1, Len(s))

RECURSIVE LStrip(_)
LStrip(s) ==
    IF s # <<>> /\ Head(s) \in Whitespace THEN LStrip(Tail(s)) ELSE s

RECURSIVE RStrip(_)
RStrip(s) ==
    IF s # <<>> /\ s[Len(s)] \in Whitespace
    THEN RStrip(SubSeq(s, 1, Len(s) - 1)) ELSE s

\* str.strip()
Strip(s) == RStrip(LStrip(s))

\* str.replace(w, ''): every non-overlapping occurrence, left to right
RECURSIVE Remove(_, _)
Remove(s, w) ==
    IF Len(s) < Len(w) \/ w = <<>> THEN s
    ELSE IF SubSeq(s, 1, Len(w)) = w
         THEN Remove(SubSeq(s, Len(w) + 1, Len(s)), w)
         ELSE <<Head(s)>> \o Remove(Tail(s), w)

\* n copies of one character
Rep(c, n) == [i \in 1..n |-> c]

(***************************************************************************)
(* Augmentation trigger: SimpleChatbot.should_search_web and               *)
(* SimpleChatbot.extract_search_query.                                     *)
(***************************************************************************)
search_indicators ==
    << <<"l","a","t","e","s","t">>,
       <<"c","u","r","r","e","n","t">>,
       <<"r","e","c","e","n","t">>,
       <<"t","o","d","a","y">>,
       <<"n","e","w","s">>,
       <<"c","o","u","r","s","e","s"," ","a","t">>,
       <<"p","r","o","g","r","a","m","s"," ","a","t">>,
       <<"w","h","a","t"," ","a","r","e"," ","t","h","e">>,
       <<"l","i","s","t">>,
       <<"f","i","n","d">>,
       <<"s","e","a","r","c","h">>,
       <<"w","e","b","s","i","t","e">>,
       <<"u","r","l">>,
       <<"i","n","f","o","r","m","a","t","i","o","n"," ","a","b","o","u","t">>,
       <<"d","e","t","a","i","l","s"," ","a","b","o","u","t">>,
       <<"t","i","m","e">>,
       <<"d","a","t","e">>,
       <<"n","o","w">>,
       <<"r","i","g","h","t"," ","n","o","w">>,
       <<"c","u","r","r","e","n","t","l","y">>,
       <<"w","h","a","t"," ","i","s"," ","t","h","e"," ","d","a","t","e">>,
       <<"w","h","a","t"," ","i","s"," ","t","h","e"," ","t","i","m","e">>,
       <<"w","h","a","t"," ","t","i","m","e"," ","i","s"," ","i","t">> >>

time_date_keywords ==
    << <<"t","i","m","e">>,
       <<"d","a","t","e">>,
       <<"t","o","d","a","y">>,
       <<"n","o","w">>,
       <<"r","i","g","h","t"," ","n","o","w">>,
       <<"c","u","r","r","e","n","t","l","y">>,
       <<"w","h","a","t"," ","t","i","m","e">> >>

institution_terms ==
    << <<"u","n","i","v","e","r","s","i","t","y">>,
       <<"c","o","l","l","e","g","e">>,
       <<"s","c","h","o","o","l">>,
       <<"c","o","u","r","s","e","s">>,
       <<"p","r","o","g","r","a","m","s">> >>

\* any(keyword in text for keyword in keywords)
AnyIn(keywords, text) ==
    \E k \in 1..Len(keywords) : Contains(text, keywords[k])

\* variant: the query is searched as typed (checked against C18)
should_search_web_as_typed(query) ==
    \/ AnyIn(time_date_keywords, query)
    \/ AnyIn(institution_terms, query)
    \/ AnyIn(search_indicators, query)

should_search_web(query) ==
    LET query_lower == Lower(query) IN
    IF AnyIn(time_date_keywords, query_lower) THEN TRUE
    ELSE IF AnyIn(institution_terms, query_lower) THEN TRUE
    ELSE AnyIn(search_indicators, query_lower)

question_words ==
    << <<"w","h","a","t"," ","a","r","e">>,
       <<"t","e","l","l"," ","m","e">>,
       <<"s","h","o","w"," ","m","e">>,
       <<"c","a","n"," ","y","o","u">>,
       <<"p","l","e","a","s","e">>,
       <<"f","i","n","d">>,
       <<"w","h","a","t"," ","i","s">>,
       <<"w","h","a","t","'","s">> >>

QueryTimeIndia == <<"c","u","r","r","e","n","t"," ","t","i","m","e"," ","i","n"," ","I","n","d","i","a"," ","I","S","T">>
QueryDateIndia == <<"c","u","r","r","e","n","t"," ","d","a","t","e"," ","i","n"," ","I","n","d","i","a">>
QueryTimeDate == <<"c","u","r","r","e","n","t"," ","t","i","m","e"," ","a","n","d"," ","d","a","t","e">>
KwTime == <<"t","i","m","e">>
KwDate == <<"d","a","t","e">>
KwIndia == <<"i","n","d","i","a">>

\* the loop `search_query = search_query.lower().replace(word, '')`
RECURSIVE StripPhrases(_, _)
StripPhrases(search_query, k) ==
    IF k > Len(question_words) THEN search_query
    ELSE StripPhrases(Remove(Lower(search_query), question_words[k]), k + 1)

\* variant: the message itself is searched for (checked against C1)
raw_search_query(user_query) == user_query

\* variant: the date test comes before the time test (checked against C19)
extract_search_query_date_first(user_query) ==
    LET query_lower == Lower(user_query) IN
    IF Contains(query_lower, KwDate) /\ Contains(query_lower, KwIndia)
    THEN QueryDateIndia
    ELSE IF Contains(query_lower, KwTime) /\ Contains(query_lower, KwIndia)
    THEN QueryTimeIndia
    ELSE IF Contains(query_lower, KwTime) \/ Contains(query_lower, KwDate)
    THEN QueryTimeDate
    ELSE Strip(StripPhrases(user_query, 1))

extract_search_query(user_query) ==
    LET query_lower == Lower(user_query) IN
    IF Contains(query_lower, KwTime) /\ Contains(query_lower, KwIndia)
    THEN QueryTimeIndia
    ELSE IF Contains(query_lower, KwDate) /\ Contains(query_lower, KwIndia)
    THEN QueryDateIndia
    ELSE IF Contains(query_lower, KwTime) \/ Contains(query_lower, KwDate)
    THEN QueryTimeDate
    ELSE Strip(StripPhrases(user_query, 1))

(***************************************************************************)
(* Text sanitizer: SimpleChatbot.clean_text.                               *)
(***************************************************************************)
NotReplacement(c) == c # ReplacementChar
InBasicRange(c) == Ord(c) < BasicLimit

\* None (a JSON null) is the one non-string value the model hands to it
None == <<"None">>

\* variant: only the replacement character is removed (checked against
\* C20)
clean_text_replacement_only(text) ==
    IF text = None \/ text = <<>> THEN <<>>
    ELSE SelectSeq(text, NotReplacement)

clean_text(text) ==
    IF text = None \/ text = <<>> THEN <<>>
    ELSE SelectSeq(SelectSeq(text, NotReplacement), InBasicRange)

(***************************************************************************)
(* Search aggregator and orchestrator: WebSearcher.search_google and       *)
(* WebSearcher.search_and_scrape.  What a backend's page parses to and     *)
(* what a scrape returns are the environment's; a backend that fails       *)
(* (network error, bad status, parse error) parses to no results and a     *)
(* scrape that fails returns None.                                         *)
(***************************************************************************)
SyntheticResult ==
    [title   |-> <<"Current Date and Time Information">>,
     url     |-> <<"https://www.timeanddate.com/">>,
     snippet |-> <<"Current time and date information. Note: For real-time data, please visit timeanddate.com directly.">>]

synthetic_keywords ==
    << <<"t","i","m","e">>, <<"d","a","t","e">>,
       <<"c","u","r","r","e","n","t">>, <<"t","o","d","a","y">>,
       <<"n","o","w">> >>

\* variant: Google's results are preferred to Bing's (checked against C15)
search_google_before_bing(query, brave, bing, google) ==
    LET fallback == IF google # <<>> THEN google ELSE bing
        results  == IF brave # <<>> THEN brave ELSE fallback
    IN  IF results = <<>> /\ AnyIn(synthetic_keywords, Lower(query))
        THEN <<SyntheticResult>>
        ELSE results

\* brave, bing, google: the result list each backend would parse to
search_google(query, brave, bing, google) ==
    LET fallback == IF bing # <<>> THEN bing ELSE google
        results  == IF brave # <<>> THEN brave ELSE fallback
    IN  IF results = <<>> /\ AnyIn(synthetic_keywords, Lower(query))
        THEN <<SyntheticResult>>
        ELSE results

\* the backends contacted, in order
BackendsContacted(brave, bing) ==
    IF brave # <<>> THEN <<"brave">>
    ELSE IF bing # <<>> THEN <<"brave", "bing">>
    ELSE <<"brave", "bing", "google">>

NoResultsBundle ==
    [success |-> FALSE, error |-> <<"No search results found">>]

\* one entry of scraped_data; content is what scrape_url returned
ScrapedEntry(result, content) ==
    [title   |-> result.title,
     url     |-> result.url,
     snippet |-> result.snippet,
     content |-> IF content # None /\ content # <<>>
                 THEN content ELSE result.snippet]

\* scraped[i]: what scrape_url returned for the i-th result
search_and_scrape(query, num_urls, search_results, scraped) ==
    IF search_results = <<>> THEN NoResultsBundle
    ELSE LET top == Slice(search_results, num_urls) IN
         [success |-> TRUE, query |-> query,
          results |-> [i \in 1..Len(top) |-> ScrapedEntry(top[i], scraped[i])]]

(***************************************************************************)
(* Prompt composer: the message sequence built by SimpleChatbot.chat and   *)
(* by chat_stream.                                                         *)
(***************************************************************************)
SystemPromptChat ==
    <<"You are PrometheusAI, a helpful and friendly AI assistant built by SamCodeMan's LLC. You provide accurate, helpful, and conversational responses. CRITICAL INSTRUCTION: If the user asks about current time, date, or 'right now' information, you MUST use the web search results provided. DO NOT use your internal knowledge for time-sensitive queries. Your training data is outdated for current information. Always rely on web search results when provided. When web search results are provided, use them to answer the user's question accurately. Always cite your sources by mentioning the website or URL when using web information. When document content is provided (from uploaded PDFs or images), use that information to answer questions accurately. Reference the document when providing answers based on its content. If web search results or document content don't contain the exact answer, acknowledge this and provide the best answer you can. Be concise but informative, and maintain a friendly tone. Do not use emojis or special characters in your responses.">>

SystemPromptStream ==
    <<"You are PrometheusAI, a helpful and friendly AI assistant built by SamCodeMan LLC. You provide accurate, helpful, and conversational responses. CRITICAL INSTRUCTION: If the user asks about current time, date, or 'right now' information, you MUST use the web search results provided. DO NOT use your internal knowledge for time-sensitive queries. Your training data is outdated for current information. Always rely on web search results when provided. When web search results are provided, use them to answer the user's question accurately. Always cite your sources by mentioning the website or URL when using web information. When document content is provided (from uploaded PDFs or images), use that information to answer questions accurately. Reference the document when providing answers based on its content. If web search results or document content don't contain the exact answer, acknowledge this and suggest the user visit the source directly. Be concise but informative, and maintain a friendly tone. Do not use emojis or special characters in your responses.">>

WebHeader == <<"\n\nWeb Search Results:\n">>
WebInstruction ==
    <<"\n\nIMPORTANT: Use ONLY the information from the web search results above to answer. Do not use outdated information.">>

Digits == <<"1","2","3","4","5","6","7","8","9">>
\* str(idx) for a one-digit idx
IntStr(idx) == <<Digits[idx]>>

\* variant: the whole content, uncut (checked against C3)
SourceBlockUncut(idx, result) ==
    <<"\n[Source ">> \o IntStr(idx) \o <<"] ">> \o result.title \o <<"\n">>
    \o <<"URL: ">> \o result.url \o <<"\n">>
    \o <<"Content: ">> \o result.content \o <<"...\n">>

SourceBlock(idx, result) ==
    <<"\n[Source ">> \o IntStr(idx) \o <<"] ">> \o result.title \o <<"\n">>
    \o <<"URL: ">> \o result.url \o <<"\n">>
    \o <<"Content: ">> \o Prefix(result.content, ExcerptCap) \o <<"...\n">>

RECURSIVE SourceBlocks(_, _)
SourceBlocks(results, idx) ==
    IF idx > Len(results) THEN <<>>
    ELSE SourceBlock(idx, results[idx]) \o SourceBlocks(results, idx + 1)

\* web_context after the `if web_data['success'] and web_data['results']`
WebContext(web_data) ==
    IF web_data.success /\ web_data.results # <<>>
    THEN WebHeader \o SourceBlocks(web_data.results, 1)
    ELSE <<>>

Truthy(text) == text # None /\ text # <<>>

UserMessage(user_query, document_context, web_context) ==
    LET base == IF Truthy(document_context)
                THEN <<"[Document Content]\n">> \o document_context
                     \o <<"\n\n[User Question]\n">> \o user_query
                ELSE user_query
    IN  IF web_context # <<>>
        THEN base \o web_context \o WebInstruction
        ELSE base

\* variant: conversation_history[:10] (checked against C2)
HistoryHead(conversation_history) ==
    Prefix(conversation_history, HistoryLimit)

\* conversation_history[-10:]
HistoryWindow(conversation_history) ==
    LastN(conversation_history, HistoryLimit)

Compose(system_prompt, conversation_history, document_context, web_context, user_query) ==
    <<[role |-> "system", content |-> system_prompt]>>
    \o HistoryWindow(conversation_history)
    \o <<[role |-> "user",
          content |-> UserMessage(user_query, document_context, web_context)]>>

\* the role/content pairs of session['messages'][:-1]
ConversationHistory(messages) ==
    [i \in 1..(Len(messages) - 1) |->
        [role |-> messages[i].role, content |-> messages[i].content]]

(***************************************************************************)
(* Model client, pure parts: SimpleChatbot.query_lm_studio and             *)
(* SimpleChatbot.query_lm_studio_stream.                                   *)
(***************************************************************************)
MsgModelError ==
    <<"Sorry, the language model returned an error. Please check that LM Studio is running and a model is loaded.">>
MsgNoConnect ==
    <<"Sorry, I couldn't connect to the language model. Please ensure LM Studio is running at http://localhost:1200">>

\* MODEL_NAME, the model the client is constructed with
InitialModel == "ibm/granite-4-h-tiny"

\* An error body, as far as the fallback reads it: whether its text holds
\* 'model_not_found' (any case), whether it holds the marker as
\* 'Your models:' ("exact"), in another case only ("lower") or not at all
\* ("none"), and the non-empty stripped lines that follow the marker.
ErrorBody(mnf, marker, names) ==
    [model_not_found |-> mnf, marker |-> marker, names |-> names]

\* the test `'model_not_found' in ... and 'your models:' in ...`
FallbackOffered(body_text) ==
    body_text.model_not_found /\ body_text.marker # "none"

\* candidates: the lines after 'Your models:' (split is case-sensitive)
Candidates(body_text) ==
    IF body_text.marker = "exact" THEN body_text.names ELSE <<>>

\* whether the first response leads to a retry
WillRetry(body_text) ==
    FallbackOffered(body_text) /\ Candidates(body_text) # <<>>

\* result['choices'][0]['message']['content'] of a response body:
\* [raises |-> "none", content |-> c], or the exception evaluating it raises
\* ("json": the body is no JSON; "key": a key or index is missing)
ReadContent(body) ==
    IF body.k = "content" THEN [raises |-> "none", content |-> body.content]
    ELSE IF body.k = "null" THEN [raises |-> "none", content |-> None]
    ELSE IF body.k = "nojson" THEN [raises |-> "json", content |-> None]
    ELSE [raises |-> "key", content |-> None]

(***************************************************************************)
(* One line of a streamed body is a sequence of units: spaces, the prefix  *)
(* "data:", and at most one payload unit.  json.loads of a payload unit    *)
(* is the table below: a payload is "[DONE]", a text that is no JSON, or   *)
(* the name of a JSON document.                                            *)
(***************************************************************************)
DataPrefix == "data:"
DoneMark == "[DONE]"

TextHi == <<"H","i">>
TextAstral == <<"o","k",AstralChar>>
TextBad == <<ReplacementChar>>

NoChoice == [isdict |-> FALSE, delta |-> "absent", delta_content |-> None,
             message |-> "absent", message_content |-> None]
\* one entry of choices: delta is "absent", "nodict" (not an object),
\* "nocontent" (an object without the key) or "content"; message likewise
\* "absent" or "content"
Choice(delta, delta_content, message, message_content) ==
    [isdict |-> TRUE, delta |-> delta, delta_content |-> delta_content,
     message |-> message, message_content |-> message_content]

JsonDoc(isdict, choices) == [valid |-> TRUE, isdict |-> isdict, choices |-> choices]
NotJson == [valid |-> FALSE, isdict |-> FALSE, choices |-> <<>>]

json_loads(unit) ==
    CASE unit = "{delta:Hi}"    -> JsonDoc(TRUE, <<Choice("content", TextHi, "absent", None)>>)
      [] unit = "{delta:astral}" -> JsonDoc(TRUE, <<Choice("content", TextAstral, "absent", None)>>)
      [] unit = "{delta:fffd}"  -> JsonDoc(TRUE, <<Choice("content", TextBad, "absent", None)>>)
      [] unit = "{delta:empty}" -> JsonDoc(TRUE, <<Choice("content", <<>>, "absent", None)>>)
      [] unit = "{delta:null}"  -> JsonDoc(TRUE, <<Choice("content", None, "absent", None)>>)
      [] unit = "{delta:role}"  -> JsonDoc(TRUE, <<Choice("nocontent", None, "absent", None)>>)
      [] unit = "{message:Hi}"  -> JsonDoc(TRUE, <<Choice("absent", None, "content", TextHi)>>)
      [] unit = "{delta:empty,message:Hi}" -> JsonDoc(TRUE, <<Choice("content", <<>>, "content", TextHi)>>)
      [] unit = "{delta:role,message:Hi}" -> JsonDoc(TRUE, <<Choice("nocontent", None, "content", TextHi)>>)
      [] unit = "{choices:[]}"  -> JsonDoc(TRUE, <<>>)
      [] unit = "{choices:[1]}" -> JsonDoc(TRUE, <<NoChoice>>)
      [] unit = "[]"            -> JsonDoc(FALSE, <<>>)
      [] OTHER                  -> NotJson

\* variant: the message content is read whenever the delta gave no
\* fragment (checked against C11)
ChunkOfDocEither(obj) ==
    IF ~obj.valid \/ ~obj.isdict \/ obj.choices = <<>> THEN <<>>
    ELSE LET ch == obj.choices[1] IN
         IF ~ch.isdict THEN <<>>
         ELSE IF ch.delta = "content" /\ Truthy(ch.delta_content)
              THEN clean_text(ch.delta_content)
         ELSE IF ch.message = "content" /\ Truthy(ch.message_content)
              THEN clean_text(ch.message_content)
         ELSE <<>>

\* the chunk the body of the try block yields for a parsed line, or <<>>
\* when it yields nothing (an exception in it is caught: nothing too)
ChunkOfDoc(obj) ==
    IF ~obj.valid \/ ~obj.isdict \/ obj.choices = <<>> THEN <<>>
    ELSE LET ch == obj.choices[1] IN
         IF ~ch.isdict THEN <<>>
         ELSE IF ch.delta = "content"
              THEN (IF Truthy(ch.delta_content)
                    THEN clean_text(ch.delta_content) ELSE <<>>)
         ELSE IF ch.message = "content"
              THEN (IF Truthy(ch.message_content)
                    THEN clean_text(ch.message_content) ELSE <<>>)
         ELSE <<>>

\* a raw line after `.strip()`, the removal of a leading 'data:' and the
\* second `.strip()`
Unwrap(raw_line) ==
    LET line == Strip(raw_line) IN
    IF line # <<>> /\ Head(line) = DataPrefix THEN Strip(Tail(line)) ELSE line

\* variant: [DONE] is passed over like a blank line (checked against C10)
LineStepPastDone(raw_line) ==
    LET line == Unwrap(raw_line) IN
    IF Strip(raw_line) = <<>> \/ line = <<DoneMark>>
    THEN [do |-> "skip", chunk |-> <<>>]
    ELSE LET chunk == IF Len(line) = 1 THEN ChunkOfDoc(json_loads(line[1]))
                      ELSE <<>>
         IN  IF chunk = <<>> THEN [do |-> "skip", chunk |-> <<>>]
             ELSE [do |-> "yield", chunk |-> chunk]

\* what the loop body does with one raw line: "skip" (continue without a
\* chunk), "break" ([DONE]) or "yield" with the chunk
LineStep(raw_line) ==
    LET line == Unwrap(raw_line) IN
    IF Strip(raw_line) = <<>> THEN [do |-> "skip", chunk |-> <<>>]
    ELSE IF line = <<DoneMark>> THEN [do |-> "break", chunk |-> <<>>]
    ELSE LET chunk == IF Len(line) = 1 THEN ChunkOfDoc(json_loads(line[1]))
                      ELSE <<>>
         IN  IF chunk = <<>> THEN [do |-> "skip", chunk |-> <<>>]
             ELSE [do |-> "yield", chunk |-> chunk]

(***************************************************************************)
(* State.                                                                  *)
(***************************************************************************)
VARIABLES
    chat_sessions,       \* the logged-in store: session id -> session
    anonymous_sessions,  \* the in-memory anonymous store
    disk,                \* what chat_sessions.json holds
    model_name,          \* CHATBOT.model_name, the client's active model
    now,                 \* requests received so far; the clock of timestamps
    uuids,               \* uuid4 values drawn so far
    pc,                  \* where the request being handled stands
    req,                 \* its local variables
    call,                \* the model-client call in progress
    events,              \* events the streaming response has emitted
    response,            \* the JSON response of the last request
    netLog,              \* outgoing network calls of the request, in order
    probe,               \* a function of the search side under examination
    threads,             \* concurrent calls of query_lm_studio, one per thread
    ops                  \* session-route requests served so far

vars == <<chat_sessions, anonymous_sessions, disk, model_name, now, uuids,
          pc, req, call, events, response, netLog, probe, threads, ops>>

store_vars == <<chat_sessions, anonymous_sessions, disk>>

\* a missing JSON field (Python None) among identifiers
Absent == "<None>"

Users == {"u1", "u2"}
\* a user_id field holding the empty JSON array
EmptyArray == "[]"
\* `not user_id`
Falsy(user_id) == user_id \in {Absent, "", EmptyArray}
\* str(uuid.uuid4()), in the order they are drawn
UuidNames == <<"uuid-1", "uuid-2", "uuid-3", "uuid-4", "uuid-5", "uuid-6">>
Uuid(n) == UuidNames[n]

Turn(role, content, timestamp) ==
    [role |-> role, content |-> content, timestamp |-> timestamp]

\* message[:50] + ('...' if len(message) > 50 else '')
Title(message) ==
    Prefix(message, TitleCap)
    \o (IF Len(message) > TitleCap THEN <<".", ".", ".">> ELSE <<>>)

NewChatSession(chat_id, user_id, message, t) ==
    [id |-> chat_id, user_id |-> user_id, title |-> Title(message),
     messages |-> <<>>, created_at |-> t, updated_at |-> t]

NewAnonymousSession(chat_id, t) ==
    [id |-> chat_id, messages |-> <<>>, created_at |-> t]

\* a store with one more entry
Put(store, key, value) ==
    [k \in DOMAIN store \cup {key} |-> IF k = key THEN value ELSE store[k]]

EmptyStore == [k \in {} |-> {}]

\* variant: the turn takes the place of the turns before it (checked
\* against C22)
ReplaceTurns(store, chat_id, turn) ==
    [store EXCEPT ![chat_id].messages = <<turn>>]

\* session['messages'].append(turn) on the session of a store
AppendTurn(store, chat_id, turn) ==
    [store EXCEPT ![chat_id].messages = Append(@, turn)]

(***************************************************************************)
(* Start-up: load_chat_sessions reads the store a previous run saved.      *)
(* Here it holds one session of user u1 whose turns are the letters a, b,  *)
(* c, ... in alternation; no anonymous session exists and the client holds *)
(* the configured model.                                                   *)
(***************************************************************************)
PreloadedTurn(i) ==
    Turn(IF i % 2 = 1 THEN "user" ELSE "assistant", <<Lowers[i]>>, 0)

PreloadedSession(n) ==
    [id |-> "c1", user_id |-> "u1", title |-> <<"a">>,
     messages |-> [i \in 1..n |-> PreloadedTurn(i)],
     created_at |-> 0, updated_at |-> 0]

NoRequest ==
    [kind |-> "none", chat_id |-> Absent, message |-> <<>>,
     user_id |-> Absent, is_logged_in |-> FALSE,
     document_context |-> None, show_login_reminder |-> FALSE,
     searched |-> FALSE, web_data |-> NoResultsBundle,
     web_search_performed |-> FALSE, history |-> <<>>,
     final_text |-> <<>>, outcome |-> "none"]

NoCall ==
    [kind |-> "none", stage |-> "none", caller |-> "none", messages |-> <<>>,
     entry_model |-> "", payload_model |-> "", sent |-> <<>>,
     first |-> "none", err |-> ErrorBody(FALSE, "none", <<>>), retry |-> "none",
     result |-> <<>>, raised |-> "none",
     failure |-> "none", decoded |-> TRUE, seen |-> <<>>,
     chunk |-> <<>>, resume |-> "none", chunks |-> <<>>]

\* the 'chat' field of a response that has none
NoSession ==
    [id |-> Absent, user_id |-> Absent, title |-> <<>>, messages |-> <<>>,
     created_at |-> 0, updated_at |-> 0]

NoResponse ==
    [status |-> 0, success |-> FALSE, error |-> <<>>, chat_id |-> Absent,
     response |-> <<>>, is_anonymous |-> FALSE, chat |-> NoSession,
     chats |-> <<>>]

\* threads of the server (app.run(threaded=True)) that may be inside
\* query_lm_studio at the same time
Threads == 1..MaxThreads

\* a thread that has not entered query_lm_studio: its payload, the error
\* body it was answered, its `chosen`, its retry_payload['model'], and the
\* model names of the requests it has posted
IdleThread ==
    [at |-> "idle", payload_model |-> "", err |-> ErrorBody(FALSE, "none", <<>>),
     chosen |-> "", retry_model |-> "", sent |-> <<>>]

NoThreads == [t \in Threads |-> IdleThread]

\* no function is under examination
NoProbe == [fn |-> "none", input |-> <<>>, env |-> <<>>, output |-> <<>>, done |-> FALSE]

\* the application after start-up, whatever is examined
InitApp ==
    /\ chat_sessions = Put(EmptyStore, "c1", PreloadedSession(2 * MaxExchanges))
    /\ anonymous_sessions = EmptyStore
    /\ disk = chat_sessions
    /\ model_name = InitialModel
    /\ now = 0
    /\ uuids = 0
    /\ pc = "idle"
    /\ req = NoRequest
    /\ call = NoCall
    /\ events = <<>>
    /\ response = NoResponse
    /\ netLog = <<>>
    /\ threads = NoThreads
    /\ ops = 0

Init == InitApp /\ probe = NoProbe

(***************************************************************************)
(* The environment of the chat handlers: what a browser sends, what the    *)
(* search backends and scraped sites answer.                               *)
(***************************************************************************)
MsgEmpty == <<>>
MsgBlank == <<" "," ">>
MsgHi == <<"h","i">>
MsgDate == <<" ","D","a","t","e"," ">>

MessageInputs == {MsgEmpty, MsgBlank, MsgHi, MsgDate}
UserInputs == {Absent, ""} \cup Users
DocumentInputs == {None, <<"d","o","c">>}
\* the chat_id field: missing, stale, or the id of a session of either store
ChatIdInputs ==
    {Absent, "stale"} \cup DOMAIN chat_sessions \cup DOMAIN anonymous_sessions

Result1 ==
    [title |-> <<"T","1">>, url |-> <<"u","r","l","1">>, snippet |-> <<"s","1">>]
Result2 ==
    [title |-> <<"T","2">>, url |-> <<"u","r","l","2">>, snippet |-> <<>>]

BraveOutcomes == {<<>>, <<Result1, Result2>>}
BingOutcomes == {<<>>, <<Result2>>}
GoogleOutcomes == {<<>>}

\* a page longer than the excerpt kept of it
LongPage == Rep("x", ExcerptCap) \o <<"y">>
\* what scrape_url returns for each of n results: every scrape fails, or
\* the first one succeeds
ScrapeOutcomes(n) ==
    { [i \in 1..n |-> None],
      [i \in 1..n |-> IF i = 1 THEN LongPage ELSE None] }

LoginReminder ==
    <<"Note: You are chatting anonymously. Your conversation will not be saved. If you want to save your chat history, please login with Google.\n\n">>
SearchNotice == <<"[Searching the web...]\n\n">>

LogEntry(op, arg) == [op |-> op, arg |-> arg]

\* the calls search_and_scrape makes, in order
SearchLog(query, brave, bing, results) ==
    <<LogEntry("search_and_scrape", query)>>
    \o [i \in 1..Len(BackendsContacted(brave, bing)) |->
            LogEntry(BackendsContacted(brave, bing)[i], query)]
    \o [i \in 1..Len(Prefix(results, NumUrls)) |->
            LogEntry("scrape", results[i].url)]

(***************************************************************************)
(* The chat handlers, /api/chat (chat) and /api/chat/stream (chat_stream), *)
(* up to the model call.                                                   *)
(***************************************************************************)
Reject(status, error) ==
    /\ response' = [NoResponse EXCEPT !.status = status, !.error = error]
    /\ pc' = "idle"
    /\ req' = [NoRequest EXCEPT !.outcome = "rejected"]
    /\ UNCHANGED <<store_vars, uuids>>

\* variant: the owner of the session named is not looked at (checked
\* against C21)
AdmitAnyOwner(kind, chat_id, message, user_id, document_context) ==
    LET is_logged_in == user_id # Absent /\ user_id # ""
        store == IF is_logged_in THEN chat_sessions ELSE anonymous_sessions
        fresh == chat_id = Absent \/ chat_id = "" \/ chat_id \notin DOMAIN store
        id == IF fresh THEN Uuid(uuids + 1) ELSE chat_id
        opened == IF ~fresh THEN store
                  ELSE IF is_logged_in
                  THEN Put(store, id, NewChatSession(id, user_id, message, now'))
                  ELSE Put(store, id, NewAnonymousSession(id, now'))
        appended == AppendTurn(opened, id, Turn("user", message, now'))
    IN  /\ IF is_logged_in
           THEN chat_sessions' = appended /\ UNCHANGED anonymous_sessions
           ELSE anonymous_sessions' = appended /\ UNCHANGED chat_sessions
        /\ UNCHANGED disk
        /\ uuids' = IF fresh THEN uuids + 1 ELSE uuids
        /\ req' = [NoRequest EXCEPT
                     !.kind = kind, !.chat_id = id, !.message = message,
                     !.user_id = IF is_logged_in THEN user_id ELSE Absent,
                     !.is_logged_in = is_logged_in,
                     !.document_context = document_context,
                     !.show_login_reminder =
                         ~is_logged_in /\ Len(opened[id].messages) = 0,
                     !.history = ConversationHistory(appended[id].messages),
                     !.outcome = "running"]
        /\ response' = NoResponse
        /\ pc' = "augment"

\* the session the request works on, created when the chat_id names none
Admit(kind, chat_id, message, user_id, document_context) ==
    LET is_logged_in == user_id # Absent /\ user_id # ""
        store == IF is_logged_in THEN chat_sessions ELSE anonymous_sessions
        fresh == chat_id = Absent \/ chat_id = "" \/ chat_id \notin DOMAIN store
        id == IF fresh THEN Uuid(uuids + 1) ELSE chat_id
        opened == IF ~fresh THEN store
                  ELSE IF is_logged_in
                  THEN Put(store, id, NewChatSession(id, user_id, message, now'))
                  ELSE Put(store, id, NewAnonymousSession(id, now'))
        appended == AppendTurn(opened, id, Turn("user", message, now'))
    IN  IF is_logged_in /\ opened[id].user_id # user_id
        THEN Reject(403, <<"Access denied">>)
        ELSE /\ IF is_logged_in
                THEN chat_sessions' = appended /\ UNCHANGED anonymous_sessions
                ELSE anonymous_sessions' = appended /\ UNCHANGED chat_sessions
             /\ UNCHANGED disk
             /\ uuids' = IF fresh THEN uuids + 1 ELSE uuids
             /\ req' = [NoRequest EXCEPT
                          !.kind = kind, !.chat_id = id, !.message = message,
                          !.user_id = IF is_logged_in THEN user_id ELSE Absent,
                          !.is_logged_in = is_logged_in,
                          !.document_context = document_context,
                          !.show_login_reminder =
                              ~is_logged_in /\ Len(opened[id].messages) = 0,
                          !.history = ConversationHistory(appended[id].messages),
                          !.outcome = "running"]
             /\ response' = NoResponse
             /\ pc' = "augment"

\* one request with these fields in its JSON body
ReceiveWith(kind, chat_id, raw, user_id, document_context) ==
    /\ pc = "idle"
    /\ now < MaxRequests
    /\ now' = now + 1
    /\ LET message == Strip(raw) IN
       IF message = <<>>
       THEN Reject(400, <<"Message cannot be empty">>)
       ELSE Admit(kind, chat_id, message, user_id, document_context)
    /\ call' = NoCall
    /\ events' = <<>>
    /\ netLog' = <<>>
    /\ UNCHANGED <<model_name, probe, threads, ops>>

Receive ==
    \E kind \in {"chat", "stream"}, chat_id \in ChatIdInputs,
       raw \in MessageInputs, user_id \in UserInputs,
       document_context \in DocumentInputs :
       ReceiveWith(kind, chat_id, raw, user_id, document_context)

SystemPrompt(kind) ==
    IF kind = "chat" THEN SystemPromptChat ELSE SystemPromptStream

\* the handler hands the composed messages to the model client: chat blocks
\* in query_lm_studio; chat_stream returns the generator
StartCall(messages, searched, web_data, web_search_performed) ==
    /\ req' = [req EXCEPT !.searched = searched, !.web_data = web_data,
                          !.web_search_performed = web_search_performed]
    /\ IF req.kind = "chat"
       THEN /\ call' = [NoCall EXCEPT !.kind = "blocking",
                           !.stage = "send", !.caller = "chat",
                           !.messages = messages,
                           !.entry_model = model_name,
                           !.payload_model = model_name]
            /\ pc' = "wait"
       ELSE /\ call' = [NoCall EXCEPT !.kind = "stream",
                           !.stage = "open", !.caller = "stream",
                           !.messages = messages]
            /\ pc' = IF req.show_login_reminder THEN "g_reminder"
                     ELSE IF web_search_performed THEN "g_notice"
                     ELSE "g_pull"
    /\ UNCHANGED <<store_vars, model_name, probe, threads, ops, now, uuids, events, response>>

WebSearch ==
    /\ pc = "augment"
    /\ should_search_web(req.message)
    /\ \E brave \in BraveOutcomes :
       \E bing \in (IF brave = <<>> THEN BingOutcomes ELSE {<<>>}) :
       \E google \in (IF brave = <<>> /\ bing = <<>> THEN GoogleOutcomes ELSE {<<>>}) :
          LET search_query == extract_search_query(req.message)
              results == search_google(search_query, brave, bing, google)
          IN  \E scraped \in ScrapeOutcomes(Len(Prefix(results, NumUrls))) :
                LET web_data == search_and_scrape(search_query, NumUrls, results, scraped)
                    web_context == WebContext(web_data)
                IN  /\ netLog' = netLog \o SearchLog(search_query, brave, bing, results)
                    /\ StartCall(Compose(SystemPrompt(req.kind), req.history,
                                         req.document_context, web_context,
                                         req.message),
                                 TRUE, web_data, web_context # <<>>)

SkipSearch ==
    /\ pc = "augment"
    /\ ~should_search_web(req.message)
    /\ netLog' = netLog
    /\ StartCall(Compose(SystemPrompt(req.kind), req.history,
                         req.document_context, <<>>, req.message),
                 FALSE, NoResultsBundle, FALSE)

(***************************************************************************)
(* The environment of the model client: what the model endpoint answers.   *)
(* A call made by a chat handler meets a few typical answers; a call made  *)
(* directly on the client meets every answer the client tells apart.       *)
(***************************************************************************)
AltModels == {"alt-1", "alt-2"}

OkBody(k, content) == [k |-> k, content |-> content]
NoBody == OkBody("none", <<>>)
PlainError == ErrorBody(FALSE, "none", <<>>)

\* first answers: a network failure, an error status, a success status
Reply(k, err, body) == [k |-> k, err |-> err, body |-> body]

ErrorBodies ==
    { PlainError,
      ErrorBody(TRUE, "none", <<>>),
      ErrorBody(TRUE, "lower", <<"alt-1">>),
      ErrorBody(FALSE, "exact", <<"alt-1">>),
      ErrorBody(TRUE, "exact", <<>>),
      ErrorBody(TRUE, "exact", <<"alt-1">>),
      ErrorBody(TRUE, "exact", <<"alt-2", "alt-1">>) }

OkBodies ==
    { OkBody("content", TextHi), OkBody("content", TextAstral),
      OkBody("content", TextBad), OkBody("null", <<>>),
      OkBody("nojson", <<>>), OkBody("nokey", <<>>) }

FirstReplies(caller) ==
    IF caller = "direct"
    THEN {Reply("neterr", PlainError, NoBody)}
         \cup {Reply("notok", e, NoBody) : e \in ErrorBodies}
         \cup {Reply("ok", PlainError, b) : b \in OkBodies}
    ELSE { Reply("neterr", PlainError, NoBody),
           Reply("notok", PlainError, NoBody),
           Reply("notok", ErrorBody(TRUE, "exact", <<"alt-1">>), NoBody),
           Reply("ok", PlainError, OkBody("content", TextAstral)),
           Reply("ok", PlainError, OkBody("nokey", <<>>)) }

RetryReplies(caller) ==
    IF caller = "direct"
    THEN {Reply("neterr", PlainError, NoBody), Reply("notok", PlainError, NoBody)}
         \cup {Reply("ok", PlainError, b) : b \in OkBodies}
    ELSE { Reply("notok", PlainError, NoBody),
           Reply("ok", PlainError, OkBody("content", TextAstral)) }

\* whether response.json() on a body that is no JSON raises a
\* RequestException (requests >= 2.27) or a plain ValueError (older)
JsonErrorIsRequestException == BOOLEAN

\* raw lines of a streamed body
LineHi == <<DataPrefix, " ", "{delta:Hi}">>
LineAstral == <<DataPrefix, "{delta:astral}", " ">>
LineDone == <<DataPrefix, " ", DoneMark>>
LineBlank == <<>>

DirectLines ==
    { LineBlank, <<" ">>, LineHi, LineAstral, LineDone,
      <<DataPrefix, " ", "{oops">>,
      <<"{delta:fffd}">>,
      <<DataPrefix, " ", "{message:Hi}">>,
      <<DataPrefix, " ", "{delta:empty,message:Hi}">> }

\* a streamed answer: the lines of the body; how it ends after the last
\* line, the response ending ("eof") or the connection breaking ("fail");
\* and whether the response declares an encoding: without one iter_lines
\* yields bytes, and `line.startswith('data:')` raises a TypeError
StreamAnswer(body, tail, decoded) ==
    [body |-> body, tail |-> tail, decoded |-> decoded]

HandlerStreams ==
    { StreamAnswer(<<>>, "eof", TRUE),
      StreamAnswer(<<LineHi, LineBlank, LineDone>>, "eof", TRUE),
      StreamAnswer(<<LineAstral, LineHi>>, "fail", TRUE),
      StreamAnswer(<<LineHi>>, "eof", FALSE) }

\* the handler's streams that agree with what the call has read so far
Agreeing(c) ==
    {h \in HandlerStreams :
        /\ h.decoded = c.decoded
        /\ Len(h.body) >= Len(c.seen)
        /\ Prefix(h.body, Len(c.seen)) = c.seen}

Decodings(caller) ==
    IF caller = "direct" THEN BOOLEAN ELSE {h.decoded : h \in HandlerStreams}

\* the lines the endpoint may send next
NextLines(c) ==
    IF c.caller = "direct"
    THEN (IF Len(c.seen) < MaxLines THEN DirectLines ELSE {})
    ELSE {h.body[Len(c.seen) + 1] : h \in {a \in Agreeing(c) : Len(a.body) > Len(c.seen)}}

\* the ways the body may end here
Endings(c) ==
    IF c.caller = "direct" THEN {"eof", "fail"}
    ELSE {h.tail : h \in {a \in Agreeing(c) : Len(a.body) = Len(c.seen)}}

StreamErrorOpen == <<"[ERROR] ">> \o <<"{error body}">>
StreamErrorRead == <<"[ERROR] Error querying LM Studio: ">> \o <<"{exception}">>

(***************************************************************************)
(* The model client at work.  query_lm_studio: one request, and one retry  *)
(* when the error body offers other models.                                *)
(***************************************************************************)
Returned(result) ==
    [call EXCEPT !.stage = "returned", !.result = result,
                 !.sent = Append(@, call.payload_model)]

Raised(exception) ==
    [call EXCEPT !.stage = "raised", !.raised = exception,
                 !.sent = Append(@, call.payload_model)]

ModelLog == Append(netLog, LogEntry("model", <<call.payload_model>>))

\* the client's fields after the first answer
AfterFirstAnswer(reply, wrapped) ==
    IF reply.k = "neterr" THEN Returned(MsgNoConnect)
    ELSE IF reply.k = "ok"
    THEN LET read == ReadContent(reply.body) IN
         IF read.raises = "none" THEN Returned(clean_text(read.content))
         ELSE IF read.raises = "json" /\ wrapped THEN Returned(MsgNoConnect)
         ELSE Raised(read.raises)
    ELSE IF WillRetry(reply.err)
    THEN [call EXCEPT !.stage = "retry",
                      !.payload_model = Candidates(reply.err)[1],
                      !.sent = Append(@, call.payload_model)]
    ELSE Returned(MsgModelError)

\* ... and what that answer was, kept for the record
AfterFirst(reply, wrapped) ==
    [AfterFirstAnswer(reply, wrapped) EXCEPT !.first = reply.k, !.err = reply.err]

\* variant: any listed model is adopted, retry or not (checked against C9)
ModelAfterFirstListed(reply) ==
    IF reply.k = "notok" /\ reply.err.names # <<>>
    THEN reply.err.names[1]
    ELSE model_name

\* self.model_name after the first answer
ModelAfterFirst(reply) ==
    IF reply.k = "notok" /\ WillRetry(reply.err)
    THEN Candidates(reply.err)[1]
    ELSE model_name

BlockingSend ==
    /\ call.stage = "send"
    /\ \E reply \in FirstReplies(call.caller), wrapped \in JsonErrorIsRequestException :
          /\ call' = AfterFirst(reply, wrapped)
          /\ model_name' = ModelAfterFirst(reply)
    /\ netLog' = ModelLog
    /\ UNCHANGED <<store_vars, probe, threads, ops, now, uuids, pc, req, events, response>>

\* the client's fields after the retry's answer: any failure in the retry
\* is caught and the error message returned
AfterRetry(reply) ==
    LET read == ReadContent(reply.body) IN
    IF reply.k = "ok" /\ read.raises = "none"
    THEN [Returned(clean_text(read.content)) EXCEPT !.retry = "ok"]
    ELSE [Returned(MsgModelError) EXCEPT !.retry = "failed"]

BlockingRetry ==
    /\ call.stage = "retry"
    /\ \E reply \in RetryReplies(call.caller) : call' = AfterRetry(reply)
    /\ netLog' = ModelLog
    /\ UNCHANGED <<store_vars, model_name, probe, threads, ops, now, uuids, pc, req, events, response>>

(***************************************************************************)
(* query_lm_studio_stream: a generator.  StreamOpen runs it to the first   *)
(* line, StreamLine reads one line; a yielded chunk waits in call.chunk    *)
(* (stage "pending") until the consumer takes it.                          *)
(***************************************************************************)
Yield(c, chunk, resume) ==
    [c EXCEPT !.stage = "pending", !.chunk = chunk, !.resume = resume,
              !.chunks = Append(@, chunk)]

AfterOpen(reply, decoded) ==
    LET c == [call EXCEPT !.payload_model = model_name,
                          !.entry_model = model_name,
                          !.sent = Append(@, model_name)]
    IN  IF reply = "neterr"
        THEN Yield([c EXCEPT !.failure = "network"], StreamErrorRead, "ended")
        ELSE IF reply = "notok"
        THEN Yield([c EXCEPT !.failure = "status"], StreamErrorOpen, "ended")
        ELSE [c EXCEPT !.stage = "lines", !.decoded = decoded]

StreamOpen ==
    /\ call.stage = "open"
    /\ pc \in {"g_pull", "direct"}
    /\ \/ \E reply \in {"neterr", "notok"} : call' = AfterOpen(reply, TRUE)
       \/ \E decoded \in Decodings(call.caller) : call' = AfterOpen("ok", decoded)
    /\ netLog' = Append(netLog, LogEntry("model", <<model_name>>))
    /\ UNCHANGED <<store_vars, model_name, probe, threads, ops, now, uuids, pc, req, events, response>>

\* the generator after reading one more line
AfterLine(raw_line) ==
    LET step == LineStep(raw_line)
        c == [call EXCEPT !.seen = Append(@, raw_line)]
    IN  IF ~call.decoded /\ Strip(raw_line) # <<>>
        THEN [c EXCEPT !.stage = "raised", !.raised = "type"]
        ELSE IF step.do = "skip" THEN c
        ELSE IF step.do = "break" THEN [c EXCEPT !.stage = "ended"]
        ELSE Yield(c, step.chunk, "lines")

\* variant: a connection that breaks between lines reaches the consumer
\* as an exception (checked against C12)
AfterEndRaising(tail) ==
    IF tail = "fail"
    THEN [call EXCEPT !.failure = "network", !.stage = "raised", !.raised = "network"]
    ELSE [call EXCEPT !.stage = "ended"]

\* the generator when no line follows
AfterEnd(tail) ==
    IF tail = "fail"
    THEN Yield([call EXCEPT !.failure = "network"], StreamErrorRead, "ended")
    ELSE [call EXCEPT !.stage = "ended"]

StreamLine ==
    /\ call.stage = "lines"
    /\ \/ \E raw_line \in NextLines(call) : call' = AfterLine(raw_line)
       \/ \E tail \in Endings(call) : call' = AfterEnd(tail)
    /\ UNCHANGED <<store_vars, model_name, probe, threads, ops, now, uuids, pc, req, events,
                   response, netLog>>

(***************************************************************************)
(* The chat handlers after the model call.                                 *)
(***************************************************************************)
\* the assistant turn is appended; a logged-in session is touched and
\* saved (save_chat_sessions rewrites the file; the write is taken to
\* succeed)
RecordAnswer(content) ==
    LET id == req.chat_id
        turn == Turn("assistant", content, now)
    IN  IF req.is_logged_in
        THEN /\ chat_sessions' =
                  [chat_sessions EXCEPT
                     ![id].messages = Append(@, turn),
                     ![id].updated_at = now,
                     ![id].title = IF Len(chat_sessions[id].messages) + 1 = 2
                                   THEN Title(req.message) ELSE @]
             /\ disk' = chat_sessions'
             /\ UNCHANGED anonymous_sessions
        ELSE /\ anonymous_sessions' = AppendTurn(anonymous_sessions, id, turn)
             /\ UNCHANGED <<chat_sessions, disk>>

\* chat: query_lm_studio returned; the reply is stored and sent
ChatFinish ==
    /\ pc = "wait"
    /\ call.stage = "returned"
    /\ LET ai_response == (IF req.show_login_reminder THEN LoginReminder ELSE <<>>)
                          \o call.result
       IN  /\ RecordAnswer(ai_response)
           /\ response' = [NoResponse EXCEPT
                             !.status = 200, !.success = TRUE,
                             !.chat_id = req.chat_id,
                             !.response = ai_response,
                             !.is_anonymous = ~req.is_logged_in]
    /\ pc' = "idle"
    /\ req' = [req EXCEPT !.outcome = "answered"]
    /\ UNCHANGED <<model_name, probe, threads, ops, now, uuids, call, events, netLog>>

\* chat: query_lm_studio raised; the handler's `except Exception` answers 500
ChatFail ==
    /\ pc = "wait"
    /\ call.stage = "raised"
    /\ response' = [NoResponse EXCEPT !.status = 500,
                                      !.error = <<"An error occurred: ">>]
    /\ pc' = "idle"
    /\ req' = [req EXCEPT !.outcome = "failed"]
    /\ UNCHANGED <<store_vars, model_name, probe, threads, ops, now, uuids, call, events, netLog>>

(***************************************************************************)
(* chat_stream.generate: the generator behind the streaming response.  It  *)
(* is suspended at every yield; there the browser reads on or goes away,   *)
(* and the generator is closed.                                            *)
(***************************************************************************)
Event(type, text) ==
    [type |-> type, text |-> text,
     chat_id |-> IF type = "done" THEN req.chat_id ELSE Absent,
     is_anonymous |-> type = "done" /\ ~req.is_logged_in]

\* variant: only the model's chunks join final_text (checked against C6)
YieldDeltaChunksOnly(text, next) ==
    /\ events' = Append(events, Event("delta", text))
    /\ \E reads_on \in BOOLEAN :
          LET joined == IF next = "g_pull" /\ pc = "g_pull"
                        THEN req.final_text \o text ELSE req.final_text
          IN  IF reads_on
              THEN /\ pc' = next
                   /\ req' = [req EXCEPT !.final_text = joined]
              ELSE /\ pc' = "idle"
                   /\ req' = [req EXCEPT !.final_text = joined,
                                         !.outcome = "abandoned"]

\* yield a delta: the generator goes on at `next` unless the browser has
\* gone.  A chunk joins final_text before it is yielded, the reminder and
\* the notice after.
YieldDelta(text, next) ==
    /\ events' = Append(events, Event("delta", text))
    /\ \E reads_on \in BOOLEAN :
          IF reads_on
          THEN /\ pc' = next
               /\ req' = [req EXCEPT !.final_text = @ \o text]
          ELSE /\ pc' = "idle"
               /\ req' = [req EXCEPT
                            !.final_text = IF pc = "g_pull" THEN @ \o text ELSE @,
                            !.outcome = "abandoned"]

GenReminder ==
    /\ pc = "g_reminder"
    /\ YieldDelta(LoginReminder,
                  IF req.web_search_performed THEN "g_notice" ELSE "g_pull")
    /\ UNCHANGED <<store_vars, model_name, probe, threads, ops, now, uuids, call, response, netLog>>

GenNotice ==
    /\ pc = "g_notice"
    /\ YieldDelta(SearchNotice, "g_pull")
    /\ UNCHANGED <<store_vars, model_name, probe, threads, ops, now, uuids, call, response, netLog>>

\* the loop body of `for chunk in bot.query_lm_studio_stream(...)`
GenForward ==
    /\ pc = "g_pull"
    /\ call.stage = "pending"
    /\ YieldDelta(call.chunk, "g_pull")
    /\ call' = [call EXCEPT !.stage = call.resume, !.chunk = <<>>]
    /\ UNCHANGED <<store_vars, model_name, probe, threads, ops, now, uuids, response, netLog>>

\* the stream is exhausted: the answer is stored and the done event sent
GenFinish ==
    /\ pc = "g_pull"
    /\ call.stage = "ended"
    /\ RecordAnswer(req.final_text)
    /\ events' = Append(events, Event("done", req.final_text))
    /\ pc' = "idle"
    /\ req' = [req EXCEPT !.outcome = "done"]
    /\ UNCHANGED <<model_name, probe, threads, ops, now, uuids, call, response, netLog>>

\* variant: the exception ends the response without an event (checked
\* against C4)
GenErrorSilent ==
    /\ pc = "g_pull"
    /\ call.stage = "raised"
    /\ events' = events
    /\ pc' = "idle"
    /\ req' = [req EXCEPT !.outcome = "error"]
    /\ UNCHANGED <<store_vars, model_name, probe, threads, ops, now, uuids, call, response, netLog>>

\* an exception reached generate's `except Exception`
GenError ==
    /\ pc = "g_pull"
    /\ call.stage = "raised"
    /\ events' = Append(events, Event("error", <<call.raised>>))
    /\ pc' = "idle"
    /\ req' = [req EXCEPT !.outcome = "error"]
    /\ UNCHANGED <<store_vars, model_name, probe, threads, ops, now, uuids, call, response, netLog>>

(***************************************************************************)
(* Calls made directly on the model client, one after the other, with the  *)
(* caller taking every chunk of a stream.                                  *)
(***************************************************************************)
DirectMessages == <<[role |-> "user", content |-> MsgHi]>>

CallOver == call.stage \in {"none", "returned", "raised", "ended"}

DirectBlocking ==
    /\ pc \in {"idle", "direct"}
    /\ CallOver
    /\ now < MaxCalls
    /\ now' = now + 1
    /\ pc' = "direct"
    /\ call' = [NoCall EXCEPT !.kind = "blocking",
                              !.stage = "send", !.caller = "direct",
                              !.messages = DirectMessages,
                              !.entry_model = model_name,
                              !.payload_model = model_name]
    /\ netLog' = <<>>
    /\ UNCHANGED <<store_vars, model_name, probe, threads, ops, uuids, req, events, response>>

DirectStream ==
    /\ pc \in {"idle", "direct"}
    /\ CallOver
    /\ now < MaxCalls
    /\ now' = now + 1
    /\ pc' = "direct"
    /\ call' = [NoCall EXCEPT !.kind = "stream",
                              !.stage = "open", !.caller = "direct",
                              !.messages = DirectMessages]
    /\ netLog' = <<>>
    /\ UNCHANGED <<store_vars, model_name, probe, threads, ops, uuids, req, events, response>>

\* the caller's `for chunk in ...` takes the chunk and asks for the next
DirectTake ==
    /\ pc = "direct"
    /\ call.stage = "pending"
    /\ call' = [call EXCEPT !.stage = call.resume, !.chunk = <<>>]
    /\ UNCHANGED <<store_vars, model_name, probe, threads, ops, now, uuids, pc, req, events,
                   response, netLog>>

(***************************************************************************)
(* The session routes: /api/chats (get_chats), /api/new-chat (new_chat),   *)
(* GET and DELETE /api/chats/<chat_id> (get_chat, delete_chat).  Each      *)
(* handler is one step, served while no chat request is being handled.     *)
(***************************************************************************)
\* the user_id of a query string, the user_id of a JSON body, a path segment
QueryUsers == {Absent, ""} \cup Users
BodyUsers == QueryUsers \cup {EmptyArray}
PathIds == {"stale"} \cup DOMAIN chat_sessions \cup DOMAIN anonymous_sessions

\* the keys of the persisted store in the order they were inserted
KeyOrder == <<"c1">> \o UuidNames

RECURSIVE ByUpdatedDesc(_, _)
\* chats.sort(key=updated_at, reverse=True): latest first, ties in the
\* order they had
ByUpdatedDesc(chats, t) ==
    IF t < 0 THEN <<>>
    ELSE SelectSeq(chats, LAMBDA c : c.updated_at = t) \o ByUpdatedDesc(chats, t - 1)

\* the sessions of user_id, as get_chats lists them
ChatsOf(user_id) ==
    LET keys == SelectSeq(KeyOrder, LAMBDA k : k \in DOMAIN chat_sessions
                                               /\ chat_sessions[k].user_id = user_id)
        chats == [i \in 1..Len(keys) |-> chat_sessions[keys[i]]]
    IN  ByUpdatedDesc(chats, now)

Refuse(status, error) ==
    /\ response' = [NoResponse EXCEPT !.status = status, !.error = error]
    /\ UNCHANGED <<store_vars, uuids>>

\* what every route leaves alone
Served ==
    /\ pc = "idle"
    /\ ops < MaxOps
    /\ ops' = ops + 1
    /\ UNCHANGED <<model_name, now, pc, req, call, events, netLog, probe, threads>>

GetChatsWith(user_id) ==
    /\ Served
    /\ IF Falsy(user_id)
       THEN Refuse(401, <<"User ID required">>)
       ELSE /\ response' = [NoResponse EXCEPT !.status = 200, !.success = TRUE,
                                              !.chats = ChatsOf(user_id)]
            /\ UNCHANGED <<store_vars, uuids>>

GetChats == \E user_id \in QueryUsers : GetChatsWith(user_id)

NewChatWith(user_id) ==
    /\ Served
    /\ uuids < Len(UuidNames)
    /\ IF Falsy(user_id)
       THEN Refuse(401, <<"Authentication required to save chats">>)
       ELSE LET chat_id == Uuid(uuids + 1) IN
            /\ chat_sessions' =
                  Put(chat_sessions, chat_id,
                      [id |-> chat_id, user_id |-> user_id,
                       title |-> <<"New chat">>, messages |-> <<>>,
                       created_at |-> now, updated_at |-> now])
            /\ disk' = chat_sessions'
            /\ uuids' = uuids + 1
            /\ response' = [NoResponse EXCEPT !.status = 200, !.success = TRUE,
                                              !.chat_id = chat_id]
            /\ UNCHANGED anonymous_sessions

NewChat == \E user_id \in BodyUsers : NewChatWith(user_id)

\* variant: the owner is not looked at (checked against C26)
GetChatAnyOwner(chat_id, user_id) ==
    /\ Served
    /\ IF Falsy(user_id) THEN Refuse(401, <<"User ID required">>)
       ELSE IF chat_id \notin DOMAIN chat_sessions
       THEN Refuse(404, <<"Chat not found">>)
       ELSE /\ response' = [NoResponse EXCEPT !.status = 200, !.success = TRUE,
                                              !.chat = chat_sessions[chat_id]]
            /\ UNCHANGED <<store_vars, uuids>>

GetChatWith(chat_id, user_id) ==
    /\ Served
    /\ IF Falsy(user_id) THEN Refuse(401, <<"User ID required">>)
       ELSE IF chat_id \notin DOMAIN chat_sessions
       THEN Refuse(404, <<"Chat not found">>)
       ELSE IF chat_sessions[chat_id].user_id # user_id
       THEN Refuse(403, <<"Access denied">>)
       ELSE /\ response' = [NoResponse EXCEPT !.status = 200, !.success = TRUE,
                                              !.chat = chat_sessions[chat_id]]
            /\ UNCHANGED <<store_vars, uuids>>

GetChat == \E chat_id \in PathIds, user_id \in QueryUsers : GetChatWith(chat_id, user_id)

\* a store without one entry
Without(store, key) == [k \in DOMAIN store \ {key} |-> store[k]]

DeleteChatWith(chat_id, user_id) ==
    /\ Served
    /\ IF Falsy(user_id) THEN Refuse(401, <<"User ID required">>)
       ELSE IF chat_id \in DOMAIN chat_sessions
               /\ chat_sessions[chat_id].user_id # user_id
       THEN Refuse(403, <<"Access denied">>)
       ELSE /\ IF chat_id \in DOMAIN chat_sessions
               THEN /\ chat_sessions' = Without(chat_sessions, chat_id)
                    /\ disk' = chat_sessions'
               ELSE UNCHANGED <<chat_sessions, disk>>
            /\ response' = [NoResponse EXCEPT !.status = 200, !.success = TRUE]
            /\ UNCHANGED <<anonymous_sessions, uuids>>

DeleteChat == \E chat_id \in PathIds, user_id \in QueryUsers : DeleteChatWith(chat_id, user_id)

\* what the browser sends between session requests: a blank message or
\* one that starts no search, without a document
SessionMessages == {MsgBlank, MsgHi}

\* a chat request whose user_id field may hold any JSON value
ReceiveAny ==
    \E kind \in {"chat", "stream"}, chat_id \in ChatIdInputs,
       raw \in SessionMessages, user_id \in BodyUsers :
       ReceiveWith(kind, chat_id, raw, user_id, None)

(***************************************************************************)
(* Specifications.  Spec: the chat handlers serving requests one after     *)
(* the other.  SpecClient: the model client serving direct calls.          *)
(* SpecSessions: the chat handlers and the session routes.                 *)
(***************************************************************************)
Next ==
    \/ Receive
    \/ WebSearch
    \/ SkipSearch
    \/ BlockingSend
    \/ BlockingRetry
    \/ ChatFinish
    \/ ChatFail
    \/ GenReminder
    \/ GenNotice
    \/ StreamOpen
    \/ StreamLine
    \/ GenForward
    \/ GenFinish
    \/ GenError

Spec == Init /\ [][Next]_vars

NextClient ==
    \/ DirectBlocking
    \/ DirectStream
    \/ BlockingSend
    \/ BlockingRetry
    \/ StreamOpen
    \/ StreamLine
    \/ DirectTake

SpecClient == Init /\ [][NextClient]_vars

\* the chat handlers and the session routes, one request after the other;
\* SessionMessages start no search
NextSessions ==
    \/ ReceiveAny
    \/ SkipSearch
    \/ BlockingSend
    \/ BlockingRetry
    \/ ChatFinish
    \/ ChatFail
    \/ GenReminder
    \/ StreamOpen
    \/ StreamLine
    \/ GenForward
    \/ GenFinish
    \/ GenError
    \/ GetChats
    \/ NewChat
    \/ GetChat
    \/ DeleteChat

SpecSessions == Init /\ [][NextSessions]_vars

(***************************************************************************)
(* query_lm_studio called on the shared client by several threads at once  *)
(* (get_chatbot hands every request the one CHATBOT; app.run is threaded). *)
(* A thread may be suspended between any two accesses of self.model_name;  *)
(* each action below is the code of one thread between two such points.    *)
(***************************************************************************)
\* what the endpoint answers a thread's first request
ThreadReplies ==
    { Reply("ok", PlainError, OkBody("content", TextHi)),
      Reply("neterr", PlainError, NoBody) }
    \cup {Reply("notok", e, NoBody) : e \in ErrorBodies}

ThreadStep(t, fields) ==
    /\ threads' = [threads EXCEPT ![t] = fields]
    /\ UNCHANGED <<store_vars, now, uuids, pc, req, call, events, response,
                   netLog, probe, ops>>

\* payload = {"model": self.model_name, ...}
ThreadEnter(t) ==
    /\ threads[t].at = "idle"
    /\ ThreadStep(t, [threads[t] EXCEPT !.at = "post",
                                        !.payload_model = model_name])
    /\ UNCHANGED model_name

\* requests.post(json=payload) and the reading of its answer, up to
\* `chosen = candidates[0]`
ThreadPost(t) ==
    /\ threads[t].at = "post"
    /\ \E reply \in ThreadReplies :
          LET posted == [threads[t] EXCEPT
                           !.sent = Append(@, threads[t].payload_model),
                           !.err = reply.err]
          IN  IF reply.k = "notok" /\ WillRetry(reply.err)
              THEN ThreadStep(t, [posted EXCEPT
                                    !.at = "adopt",
                                    !.chosen = Candidates(reply.err)[1]])
              ELSE ThreadStep(t, [posted EXCEPT !.at = "done"])
    /\ UNCHANGED model_name

\* self.model_name = chosen
ThreadAdopt(t) ==
    /\ threads[t].at = "adopt"
    /\ model_name' = threads[t].chosen
    /\ ThreadStep(t, [threads[t] EXCEPT !.at = "build"])

\* retry_payload = {**payload, 'model': self.model_name}
ThreadBuildRetry(t) ==
    /\ threads[t].at = "build"
    /\ ThreadStep(t, [threads[t] EXCEPT !.at = "retry",
                                        !.retry_model = model_name])
    /\ UNCHANGED model_name

\* requests.post(json=retry_payload); whatever the answer, the call is over
ThreadRetry(t) ==
    /\ threads[t].at = "retry"
    /\ ThreadStep(t, [threads[t] EXCEPT
                        !.at = "done",
                        !.sent = Append(@, threads[t].retry_model)])
    /\ UNCHANGED model_name

NextThreads ==
    \/ \E t \in Threads : ThreadEnter(t)
    \/ \E t \in Threads : ThreadPost(t)
    \/ \E t \in Threads : ThreadAdopt(t)
    \/ \E t \in Threads : ThreadBuildRetry(t)
    \/ \E t \in Threads : ThreadRetry(t)

SpecThreads == Init /\ [][NextThreads]_vars

(***************************************************************************)
(* The search side with its environment: WebSearcher.search_brave,         *)
(* search_html_fallback, search_google, scrape_url and search_and_scrape   *)
(* given what each backend and each scraped site answers.                  *)
(***************************************************************************)
\* quote_plus(query) encodes the query as UTF-8 and raises on a surrogate
Encodable(query) == \A i \in 1..Len(query) : query[i] # LoneSurrogate

\* how a request to a backend or a site ends: in an exception of the
\* session ("neterr", "timeout"), a status other than 200, an exception
\* while the page is parsed, or a page
FailureKinds == {"neterr", "timeout", "status", "parse"}
Failed(kind) == [kind |-> kind, found |-> <<>>, text |-> <<>>]
\* a result page with its result containers, in rank order
Found(found) == [kind |-> "ok", found |-> found, text |-> <<>>]
\* a scraped page with the text get_text() gives
Page(text) == [kind |-> "ok", found |-> <<>>, text |-> text]

\* `if url and title`
BraveKeeps(r) == r.url # <<>> /\ r.title # <<>>

search_brave(query, num_results, outcome) ==
    IF ~Encodable(query) \/ outcome.kind # "ok" THEN <<>>
    ELSE SelectSeq(Slice(outcome.found, num_results), BraveKeeps)

\* one engine of search_html_fallback
search_engine(num_results, outcome) ==
    IF outcome.kind # "ok" THEN <<>> ELSE Slice(outcome.found, num_results)

\* search_html_fallback builds its two URLs before its first `try`
search_html_fallback_raises(query) == ~Encodable(query)

\* search_google with its backends: whether it raised, what it returned,
\* and the backends it sent a request to, in order
Search(query, num_results, env) ==
    LET brave  == search_brave(query, num_results, env.brave)
        bing   == search_engine(num_results, env.bing)
        google == search_engine(num_results, env.google)
    IN  IF brave = <<>> /\ search_html_fallback_raises(query)
        THEN [raised |-> TRUE, results |-> <<>>, contacted |-> <<>>]
        ELSE [raised |-> FALSE,
              results |-> search_google(query, brave, bing, google),
              contacted |-> BackendsContacted(brave, bing)]

\* str.split(w)
RECURSIVE SplitFrom(_, _, _)
SplitFrom(s, w, cur) ==
    IF s = <<>> THEN <<cur>>
    ELSE IF Len(s) >= Len(w) /\ SubSeq(s, 1, Len(w)) = w
         THEN <<cur>> \o SplitFrom(SubSeq(s, Len(w) + 1, Len(s)), w, <<>>)
         ELSE SplitFrom(Tail(s), w, Append(cur, Head(s)))

\* phrase.strip() for line in lines for phrase in line.split("  "), the
\* lines being the stripped lines of the text
RECURSIVE Phrases(_)
Phrases(lines) ==
    IF lines = <<>> THEN <<>>
    ELSE LET parts == SplitFrom(Strip(Head(lines)), <<" ", " ">>, <<>>)
         IN  [i \in 1..Len(parts) |-> Strip(parts[i])] \o Phrases(Tail(lines))

\* ' '.join(chunks)
RECURSIVE Join(_)
Join(chunks) ==
    IF chunks = <<>> THEN <<>>
    ELSE IF Len(chunks) = 1 THEN Head(chunks)
    ELSE Head(chunks) \o <<" ">> \o Join(Tail(chunks))

NonEmpty(chunk) == chunk # <<>>

\* the text of a page on one line: its non-empty phrases joined by one
\* blank
Flatten(text) ==
    Join(SelectSeq(Phrases(SplitFrom(text, <<"\n">>, <<>>)), NonEmpty))

Marker == <<".", ".", ".">>

\* variant: the marker is added to every text (checked against C17)
TruncateAlways(text, max_chars) == Slice(text, max_chars) \o Marker

Truncate(text, max_chars) ==
    IF Len(text) > max_chars THEN Slice(text, max_chars) \o Marker ELSE text

DefaultMaxChars == 5000

\* scrape_url: None on any failure, an empty url included
scrape_url(url, max_chars, page) ==
    IF url = <<>> \/ page.kind # "ok" THEN None
    ELSE Truncate(Flatten(page.text), max_chars)

\* search_and_scrape with its backends and the sites of the results:
\* whether it raised, the bundle, and the URLs it scraped, in order
SearchAndScrape(query, num_urls, env) ==
    LET s   == Search(query, num_urls, env)
        top == Slice(s.results, num_urls)
        scraped == [i \in 1..Len(top) |->
                       scrape_url(top[i].url, DefaultMaxChars, env.pages[i])]
    IN  IF s.raised
        THEN [raised |-> TRUE, bundle |-> NoResultsBundle, scraped |-> <<>>]
        ELSE [raised |-> FALSE,
              bundle |-> search_and_scrape(query, num_urls, s.results, scraped),
              scraped |-> IF s.results = <<>> THEN <<>>
                          ELSE [i \in 1..Len(top) |-> top[i].url]]

(***************************************************************************)
(* Examination of the functions of the search side.  One function is       *)
(* called once on inputs drawn at the start; the answers of the backends   *)
(* and sites are drawn when it is called.                                  *)
(***************************************************************************)
\* characters of a sanitized text
MaxText == 3
\* characters of a scraped page
MaxPage == 4
\* the largest max_chars of a scrape
MaxChars == 3
\* the largest number of results asked for
MaxUrls == 3
\* leading characters of a query whose case is varied
MaxCased == 2

\* str.upper() on one character
UpperChar(c) ==
    IF Ord(c) >= 97 /\ Ord(c) <= 122 THEN Upper[Ord(c) - 96] ELSE c

UpperText(s) == [i \in 1..Len(s) |-> UpperChar(s[i])]

\* the text with the characters at the positions of `ups` in upper case
\* and the others in lower case
Cased(s, ups) ==
    [i \in 1..Len(s) |-> IF i \in ups THEN UpperChar(s[i]) ELSE LowerChar(s[i])]

CaseVariants(s) ==
    {s, UpperText(s)} \cup {Cased(s, ups) : ups \in SUBSET (1..MaxCased)}

QueryBases ==
    { <<>>,
      <<"h","i">>,
      <<"t","i","m","e">>,
      <<"D","a","t","e"," ","i","n"," ","I","n","d","i","a">>,
      <<"i","n","d","i","a"," ","t","i","m","e"," ","d","a","t","e">>,
      <<"w","h","a","t"," ","i","s"," ","t","h","e"," ","d","a","t","e">>,
      <<"I","n","d","i","a">>,
      <<"u","p","d","a","t","e">>,
      <<"k","n","o","w">>,
      <<"l","a","t","e","s","t"," ","n","e","w","s">>,
      <<"c","o","l","l","e","g","e">>,
      <<"f","i","n","d"," ","x">>,
      <<"w","h","a","t"," ","i","s"," ","p","y","t","h","o","n">>,
      <<"T","e","l","l"," ","m","e"," ","a"," ","j","o","k","e">>,
      <<"t","i","w","h","a","t"," ","i","s","m","e">> }

QueryInputs == UNION {CaseVariants(q) : q \in QueryBases}

\* all texts of at most n characters of an alphabet
Texts(alphabet, n) == UNION {[1..k -> alphabet] : k \in 0..n}

CleanInputs == Texts({"a", ReplacementChar, AstralChar, LoneSurrogate}, MaxText)

PageTexts == Texts({"a", " ", "\n"}, MaxPage)

ScrapeInputs ==
    [url : {<<>>, <<"u","r","l","1">>}, max_chars : 0..MaxChars]

PageInputs == {Failed(k) : k \in FailureKinds} \cup {Page(t) : t \in PageTexts}

SearchQueries == {MsgHi, KwTime, <<"N","o","w">>, <<"n","e","w","s",LoneSurrogate>>}

\* -1 is what /api/web-search passes on for {"num_results": -1}
SearchInputs == [query : SearchQueries, num : (-1)..MaxUrls]

Result3 ==
    [title |-> <<"T","3">>, url |-> <<"u","r","l","3">>, snippet |-> <<"s","3">>]
\* a container without a title
NoTitle == [title |-> <<>>, url |-> <<"u","r","l","0">>, snippet |-> <<"s","0">>]

BraveAnswers ==
    {Failed(k) : k \in FailureKinds}
    \cup {Found(<<>>), Found(<<NoTitle, Result1, Result2>>)}
BingAnswers ==
    {Failed(k) : k \in FailureKinds} \cup {Found(<<>>), Found(<<Result2>>)}
GoogleAnswers ==
    {Failed("neterr"), Failed("status"), Found(<<>>), Found(<<Result3, Result1>>)}

SearchEnvs == [brave : BraveAnswers, bing : BingAnswers, google : GoogleAnswers]

SiteAnswers ==
    {Failed("neterr"), Failed("status"), Page(<<>>), Page(<<"a"," ","b">>)}

BundleEnvs ==
    [brave : {Failed("status"), Found(<<NoTitle, Result1, Result2>>)},
     bing : {Failed("neterr"), Found(<<Result2>>)},
     google : {Found(<<>>)},
     pages : [1..MaxUrls -> SiteAnswers]]

Probe(fn, input) == [NoProbe EXCEPT !.fn = fn, !.input = input]

InitFunctions ==
    /\ InitApp
    /\ \/ \E q \in QueryInputs : probe = Probe("should_search_web", q)
       \/ \E q \in QueryInputs : probe = Probe("extract_search_query", q)
       \/ \E t \in CleanInputs : probe = Probe("clean_text", t)
       \/ \E i \in ScrapeInputs : probe = Probe("scrape_url", i)
       \/ \E i \in SearchInputs : probe = Probe("search_google", i)
       \/ \E i \in SearchInputs : probe = Probe("search_and_scrape", i)

\* the function under examination returns (or raises)
Evaluate(fn, env, output) ==
    /\ probe.fn = fn
    /\ ~probe.done
    /\ probe' = [probe EXCEPT !.env = env, !.output = output, !.done = TRUE]
    /\ UNCHANGED <<store_vars, model_name, now, uuids, pc, req, call, events,
                   response, netLog, threads, ops>>

CallShouldSearch ==
    Evaluate("should_search_web", <<>>, should_search_web(probe.input))

CallExtract ==
    Evaluate("extract_search_query", <<>>, extract_search_query(probe.input))

CallClean ==
    Evaluate("clean_text", <<>>, clean_text(probe.input))

CallScrape ==
    \E page \in PageInputs :
        Evaluate("scrape_url", page,
                 scrape_url(probe.input.url, probe.input.max_chars, page))

CallSearch ==
    \E env \in SearchEnvs :
        Evaluate("search_google", env,
                 Search(probe.input.query, probe.input.num, env))

CallSearchAndScrape ==
    \E env \in BundleEnvs :
        Evaluate("search_and_scrape", env,
                 SearchAndScrape(probe.input.query, probe.input.num, env))

NextFunctions ==
    \/ CallShouldSearch
    \/ CallExtract
    \/ CallClean
    \/ CallScrape
    \/ CallSearch
    \/ CallSearchAndScrape

SpecFunctions == InitFunctions /\ [][NextFunctions]_vars


(***************************************************************************)
(* Properties of the chat pipeline (specification Spec).                   *)
(***************************************************************************)
\* the session the current request works on
Session ==
    IF req.is_logged_in THEN chat_sessions[req.chat_id]
    ELSE anonymous_sessions[req.chat_id]

\* a handler has composed its messages and set up the model call
Composed == call.caller \in {"chat", "stream"}

\* the content of the final message handed to the model client
FinalUserMessage == call.messages[Len(call.messages)].content

Positions(op) == {i \in DOMAIN netLog : netLog[i].op = op}
SearchOps == {"search_and_scrape", "brave", "bing", "google", "scrape"}

(* C1: for every chat request that passes validation, blocking or          *)
(* streaming, the search orchestrator is invoked exactly when              *)
(* should_search_web(message) holds, at most once, with the query          *)
(* extract_search_query(message), and before the model request is sent;    *)
(* when it does not hold, no search or scrape is made and the final user   *)
(* message has no "Web Search Results" block.  The two scenarios of the    *)
(* specification are spelled out: "hi" triggers nothing, "Date" is         *)
(* searched as "current time and date".                                    *)
C1_SearchExactlyWhenTriggered ==
    /\ pc = "augment" => netLog = <<>>
    /\ Composed =>
         /\ req.message = MsgHi => Positions("search_and_scrape") = {}
         /\ req.message = Strip(MsgDate) =>
               \E i \in Positions("search_and_scrape") :
                  netLog[i].arg = QueryTimeDate
         /\ IF should_search_web(req.message)
            THEN /\ Cardinality(Positions("search_and_scrape")) = 1
                 /\ \A i \in Positions("search_and_scrape") :
                       /\ netLog[i].arg = extract_search_query(req.message)
                       /\ \A j \in Positions("model") : i < j
            ELSE /\ \A i \in DOMAIN netLog : netLog[i].op \notin SearchOps
                 /\ ~Contains(FinalUserMessage, WebHeader)

\* a streaming request whose message triggered the search has reached the
\* model, the search logged before the model request
C1_Witness ==
    /\ req.kind = "stream"
    /\ req.message = Strip(MsgDate)
    /\ Positions("search_and_scrape") = {1}
    /\ Positions("scrape") # {}
    /\ Positions("model") # {}

\* H: the session's turns before the current user turn
History ==
    LET m == Session.messages
        n == IF req.outcome \in {"answered", "done"}
             THEN Len(m) - 2 ELSE Len(m) - 1
    IN  SubSeq(m, 1, n)

(* C2: the messages handed to the model are one system message, then the   *)
(* last min(10, |H|) turns of the session history H as role/content pairs  *)
(* in their order, then the user message as the final entry:               *)
(* min(10, |H|) + 2 messages in all.                                       *)
C2_MessagesSent ==
    Composed =>
      LET H == History
          k == IF Len(H) < 10 THEN Len(H) ELSE 10
          sent == call.messages
      IN  /\ Len(sent) = k + 2
          /\ sent[1].role = "system"
          /\ \A i \in 1..k :
                sent[1 + i] = [role    |-> H[Len(H) - k + i].role,
                               content |-> H[Len(H) - k + i].content]
          /\ sent[k + 2].role = "user"

\* a request on the stored session, whose history is longer than the
\* window, has been sent to the model
C2_Witness ==
    /\ Composed
    /\ Len(History) > 10
    /\ Len(call.messages) = 12
    /\ call.sent # <<>>

\* the user message without web context: the query, wrapped when a
\* document came with it
ExpectedBase ==
    IF req.document_context # None /\ req.document_context # <<>>
    THEN <<"[Document Content]\n">> \o req.document_context
         \o <<"\n\n[User Question]\n">> \o req.message
    ELSE req.message

\* the first 1500 characters of a result's content
ExpectedExcerpt(content) ==
    IF Len(content) <= 1500 THEN content ELSE SubSeq(content, 1, 1500)

\* the entries of the web block from the i-th result of the bundle on
RECURSIVE ExpectedEntries(_)
ExpectedEntries(i) ==
    IF i > Len(req.web_data.results) THEN <<>>
    ELSE LET r == req.web_data.results[i] IN
         <<"\n[Source ", Digits[i], "] ">> \o r.title \o <<"\n", "URL: ">>
         \o r.url \o <<"\n", "Content: ">> \o ExpectedExcerpt(r.content)
         \o <<"...\n">> \o ExpectedEntries(i + 1)

(* C3: the final user message is the query verbatim, or the query behind   *)
(* the "[Document Content]" / "[User Question]" wrapper when a document    *)
(* came with it; the web block (header, one "[Source i]" entry per bundle  *)
(* result numbered from 1 in bundle order, each excerpt at most 1500       *)
(* characters followed by "...") and the instruction line are appended if  *)
(* and only if the bundle has success = true and a non-empty result list.  *)
C3_FinalUserMessage ==
    Composed =>
       IF req.searched /\ req.web_data.success /\ req.web_data.results # <<>>
       THEN FinalUserMessage =
               ExpectedBase \o <<"\n\nWeb Search Results:\n">>
               \o ExpectedEntries(1) \o WebInstruction
       ELSE FinalUserMessage = ExpectedBase

\* a document and a bundle of two results, one with a page longer than the
\* excerpt, have been composed and sent
C3_Witness ==
    /\ Composed
    /\ req.document_context # None
    /\ req.searched
    /\ req.web_data.success
    /\ Len(req.web_data.results) = 2
    /\ \E i \in 1..2 : Len(req.web_data.results[i].content) > 1500
    /\ Len(FinalUserMessage) > 1500
    /\ call.sent # <<>>

\* the streaming response is over and the browser has read all of it
StreamReadToEnd ==
    req.kind = "stream" /\ pc = "idle" /\ req.outcome # "abandoned"

(* C4: a streaming chat response that passed validation and is read to its *)
(* end is zero or more delta events followed by exactly one terminal       *)
(* event, done or error; never both, and no event follows the terminal     *)
(* one.                                                                    *)
C4_StreamShape ==
    /\ \A i \in 1..(Len(events) - 1) : events[i].type = "delta"
    /\ pc # "idle" => \A i \in 1..Len(events) : events[i].type = "delta"
    /\ StreamReadToEnd =>
          /\ events # <<>>
          /\ events[Len(events)].type \in {"done", "error"}

\* a stream of two deltas and more has ended with its done event
C4_Witness ==
    /\ StreamReadToEnd
    /\ Len(events) >= 3
    /\ events[Len(events)].type = "done"

(* C5: whenever the model stream fails during a streaming chat request (a  *)
(* non-success initial response, or a network failure in mid-stream), the  *)
(* streaming response ends with an error event and has no done event.      *)
C5_FailedStreamEndsWithError ==
    (StreamReadToEnd /\ call.failure # "none") =>
        /\ events[Len(events)].type = "error"
        /\ \A i \in 1..Len(events) : events[i].type # "done"

\* the texts of the delta events, in order
DeltaTexts ==
    LET deltas == SelectSeq(events, LAMBDA e : e.type = "delta")
    IN  [i \in 1..Len(deltas) |-> deltas[i].text]

RECURSIVE Concat(_)
Concat(texts) ==
    IF texts = <<>> THEN <<>> ELSE Head(texts) \o Concat(Tail(texts))

\* the deltas the handler sends before it pulls the first chunk
Preamble ==
    (IF req.show_login_reminder THEN <<LoginReminder>> ELSE <<>>)
    \o (IF req.web_search_performed THEN <<SearchNotice>> ELSE <<>>)

\* the chunks the consumer has taken from the model client
Taken ==
    IF call.stage = "pending"
    THEN SubSeq(call.chunks, 1, Len(call.chunks) - 1)
    ELSE call.chunks

(* C6: in a streaming chat request each chunk the model client produces is *)
(* forwarded as one delta event, in order, before the next chunk is        *)
(* pulled; when the stream ends, exactly one assistant turn is appended to *)
(* the session, its content the concatenation of all delta payloads, and   *)
(* the done event carries that content as its final field.                 *)
C6_ForwardAndRecord ==
    (req.kind = "stream" /\ call.sent # <<>>) =>
       /\ DeltaTexts = Preamble \o Taken
       /\ Len(call.chunks) - Len(Taken) <= 1
       /\ req.outcome = "done" =>
            LET m == Session.messages
                done == events[Len(events)]
            IN  /\ done.type = "done"
                /\ Len(m) = Len(req.history) + 2
                /\ m[Len(m) - 1].role = "user"
                /\ m[Len(m)].role = "assistant"
                /\ m[Len(m)].content = Concat(DeltaTexts)
                /\ done.text = m[Len(m)].content

\* an anonymous streaming request with a web search and two model chunks
\* has ended: four deltas, then done
C6_Witness ==
    /\ req.outcome = "done"
    /\ Len(call.chunks) >= 2
    /\ Len(DeltaTexts) = Len(call.chunks) + 2

(***************************************************************************)
(* Properties of the model client (specification SpecClient).              *)
(***************************************************************************)
DegradedMessages == {MsgModelError, MsgNoConnect}

(* C7: the blocking model call returns a string and never raises, whatever *)
(* the endpoint does: network error, non-success status with or without a  *)
(* readable error body, failed retry, success status with any body; on a   *)
(* network error or a lasting failure the string is one of the fixed       *)
(* degraded-service messages.                                              *)
C7_BlockingNeverRaises ==
    call.kind = "blocking" =>
       /\ call.raised = "none"
       /\ call.stage # "raised"
       /\ (call.stage = "returned"
           /\ (call.first = "neterr"
               \/ (call.first = "notok" /\ call.retry # "ok")))
          => call.result \in DegradedMessages

(* C8: one blocking call sends at most two requests; the retry is sent     *)
(* only when the first response is non-success and its error body reports  *)
(* model-not-found with a list of models, and goes to the first listed     *)
(* one; the active model becomes that one when the retry succeeds and is   *)
(* unchanged when the retry fails or none is made.                         *)
C8_RetryAndActiveModel ==
    (call.kind = "blocking" /\ call.stage \in {"returned", "raised"}) =>
       /\ Len(call.sent) <= 2
       /\ call.sent[1] = call.entry_model
       /\ Len(call.sent) = 2 =>
             /\ call.first = "notok"
             /\ call.err.model_not_found
             /\ call.err.names # <<>>
             /\ call.sent[2] = call.err.names[1]
       /\ IF call.retry = "ok"
          THEN model_name = call.err.names[1]
          ELSE model_name = call.entry_model

\* the step of a blocking call from its first answer to its retry
FallbackStep ==
    /\ call.kind = "blocking"
    /\ call.stage = "send"
    /\ call.sent = <<>>
    /\ call'.stage = "retry"

ExpectedFragment(raw_line) ==
    CASE raw_line = LineHi -> <<"H", "i">>
      [] raw_line = LineAstral -> <<"o", "k">>
      [] raw_line = <<DataPrefix, " ", "{message:Hi}">> -> <<"H", "i">>
      [] OTHER -> <<>>

\* the fragments of the lines before the first [DONE] line
RECURSIVE ExpectedChunks(_)
ExpectedChunks(lines) ==
    IF lines = <<>> \/ Head(lines) = LineDone THEN <<>>
    ELSE (IF ExpectedFragment(Head(lines)) # <<>>
          THEN <<ExpectedFragment(Head(lines))>> ELSE <<>>)
         \o ExpectedChunks(Tail(lines))

FirstChoice(raw_line) ==
    LET line == Unwrap(raw_line)
        obj == IF Len(line) = 1 THEN json_loads(line[1]) ELSE NotJson
    IN  IF obj.valid /\ obj.isdict /\ obj.choices # <<>> /\ obj.choices[1].isdict
        THEN obj.choices[1] ELSE NoChoice

DeltaFragment(ch) ==
    IF ch.delta = "content" /\ Truthy(ch.delta_content) THEN ch.delta_content ELSE <<>>

MessageFragment(ch) ==
    IF ch.message = "content" /\ Truthy(ch.message_content)
    THEN ch.message_content ELSE <<>>

\* the fragment as the specification reads it: the delta content, or the
\* message content
FragmentEither(raw_line) ==
    LET ch == FirstChoice(raw_line) IN
    IF DeltaFragment(ch) # <<>> THEN DeltaFragment(ch) ELSE MessageFragment(ch)

\* the fragment the message content can only give when the delta has no
\* content key at all
FragmentDeltaFirst(raw_line) ==
    LET ch == FirstChoice(raw_line) IN
    IF ch.delta = "content" THEN DeltaFragment(ch) ELSE MessageFragment(ch)

IsDone(raw_line) == Strip(raw_line) # <<>> /\ Unwrap(raw_line) = <<DoneMark>>

\* one chunk, the sanitized fragment, for every line before [DONE] that
\* carries a fragment in either field
RECURSIVE ChunksEither(_)
ChunksEither(lines) ==
    IF lines = <<>> \/ IsDone(Head(lines)) THEN <<>>
    ELSE (IF FragmentEither(Head(lines)) # <<>>
          THEN <<clean_text(FragmentEither(Head(lines)))>> ELSE <<>>)
         \o ChunksEither(Tail(lines))

\* one chunk for every line before [DONE] whose fragment, delta first, is
\* non-empty after sanitization
RECURSIVE ChunksDeltaFirst(_)
ChunksDeltaFirst(lines) ==
    IF lines = <<>> \/ IsDone(Head(lines)) THEN <<>>
    ELSE (IF clean_text(FragmentDeltaFirst(Head(lines))) # <<>>
          THEN <<clean_text(FragmentDeltaFirst(Head(lines)))>> ELSE <<>>)
         \o ChunksDeltaFirst(Tail(lines))

ContentChunks ==
    IF call.failure = "none" THEN call.chunks
    ELSE Prefix(call.chunks, Len(call.chunks) - 1)

(* C11 as stated: every well-formed line before "[DONE]" whose first       *)
(* choice carries a non-empty fragment in its delta content or in its      *)
(* message content gives exactly one chunk, the sanitized fragment.        *)
C11_OneChunkPerFragment ==
    (call.kind = "stream" /\ call.decoded /\ call.failure # "status") =>
        ContentChunks = ChunksEither(call.seen)

(* C11 as the code has it: in a response read as text, a line before       *)
(* "[DONE]" gives exactly one chunk, the sanitized fragment, when that     *)
(* sanitized fragment is non-empty, and no chunk otherwise; the fragment   *)
(* is the delta content when the delta has a content key, and the message  *)
(* content only when it has none.  In a response read as bytes the first   *)
(* non-blank line raises and no line gives a chunk.                        *)
C11_OneChunkPerCleanFragment ==
    (call.kind = "stream" /\ call.failure # "status") =>
        /\ call.decoded => ContentChunks = ChunksDeltaFirst(call.seen)
        /\ ~call.decoded =>
              /\ ContentChunks = <<>>
              /\ (\E i \in 1..Len(call.seen) : Strip(call.seen[i]) # <<>>)
                    => call.stage = "raised"

\* a fragment that sanitizes to nothing, a delta with empty content beside
\* a message, then a plain fragment: only the last gives a chunk
C11_Witness ==
    /\ call.kind = "stream"
    /\ call.decoded
    /\ call.seen = << <<"{delta:fffd}">>,
                      <<DataPrefix, " ", "{delta:empty,message:Hi}">>, LineHi >>
    /\ call.chunks = <<TextHi>>

(***************************************************************************)
(* C12.  The streaming call when the endpoint fails.                       *)
(***************************************************************************)
IsErrorChunk(chunk) == chunk # <<>> /\ Head(chunk) \in {Head(StreamErrorOpen), Head(StreamErrorRead)}

ErrorChunkPositions == {i \in 1..Len(call.chunks) : IsErrorChunk(call.chunks[i])}

\* the generator has yielded its last chunk: it ends when asked again
Ending ==
    \/ call.stage = "ended"
    \/ call.stage = "pending" /\ call.resume = "ended"

(* C12: the streaming call does not raise on an endpoint failure.  On a    *)
(* non-success initial response it yields exactly one chunk, beginning     *)
(* with "[ERROR]", and ends; when the connection fails, at the request or  *)
(* between lines, it yields exactly one chunk beginning with "[ERROR]",    *)
(* as its last chunk, and ends.                                            *)
C12_EndpointFailureIsOneErrorChunk ==
    call.kind = "stream" =>
        /\ call.failure # "none" =>
              /\ call.raised = "none"
              /\ Ending
              /\ ErrorChunkPositions = {Len(call.chunks)}
        /\ call.failure = "status" => call.chunks = <<StreamErrorOpen>>
        /\ call.failure = "network" =>
              call.chunks[Len(call.chunks)] = StreamErrorRead
        /\ call.failure = "none" => ErrorChunkPositions = {}

\* two fragments, then the connection breaks: the third and last chunk is
\* the error chunk, and the generator is over
C12_Witness ==
    /\ call.kind = "stream"
    /\ call.failure = "network"
    /\ call.seen = <<LineAstral, LineHi>>
    /\ call.chunks = << <<"o", "k">>, TextHi, StreamErrorRead >>
    /\ call.stage = "ended"
    /\ call.raised = "none"

(***************************************************************************)
(* Properties of the search side (specification SpecFunctions).            *)
(***************************************************************************)
Returned_(fn) == probe.fn = fn /\ probe.done

Min(a, b) == IF a < b THEN a ELSE b

\* what the search of the examined search_and_scrape call returned
BundleSearch == Search(probe.input.query, probe.input.num, probe.env)

(* C13: when the search returns nothing, search_and_scrape returns the     *)
(* failure bundle {success: false, error: "No search results found"}       *)
(* without scraping; otherwise it returns a success bundle of exactly      *)
(* min(num_urls, number of search results) entries, entry i carrying the   *)
(* title, url and snippet of search result i.                              *)
C13_BundleOfSearchResults ==
    (Returned_("search_and_scrape") /\ ~probe.output.raised) =>
        LET found == BundleSearch.results
            bundle == probe.output.bundle
        IN  /\ found = <<>> =>
                 /\ bundle = [success |-> FALSE, error |-> <<"No search results found">>]
                 /\ probe.output.scraped = <<>>
            /\ found # <<>> =>
                 /\ bundle.success
                 /\ Len(bundle.results) = Min(probe.input.num, Len(found))
                 /\ \A i \in 1..Len(bundle.results) :
                       /\ bundle.results[i].title = found[i].title
                       /\ bundle.results[i].url = found[i].url
                       /\ bundle.results[i].snippet = found[i].snippet

\* what scrape_url returned for entry i of the examined bundle
BundleScrape(i) ==
    scrape_url(probe.output.bundle.results[i].url, DefaultMaxChars, probe.env.pages[i])

(* C14: every entry of a success bundle has non-empty content: the scraped *)
(* text when the scrape of its URL returned content, and the result's      *)
(* snippet otherwise.                                                      *)
C14_EntriesHaveContent ==
    (Returned_("search_and_scrape") /\ ~probe.output.raised
        /\ probe.output.bundle.success) =>
        \A i \in 1..Len(probe.output.bundle.results) :
            LET entry == probe.output.bundle.results[i] IN
            /\ entry.content # <<>>
            /\ entry.content = IF Truthy(BundleScrape(i)) THEN BundleScrape(i)
                               ELSE entry.snippet

\* what each backend yields to the examined search call
BraveYield == search_brave(probe.input.query, probe.input.num, probe.env.brave)
BingYield == search_engine(probe.input.num, probe.env.bing)
GoogleYield == search_engine(probe.input.num, probe.env.google)

\* the query has one of 'time', 'date', 'current', 'today', 'now' in it,
\* in either case
HasTimeDateKeyword(query) ==
    \E w \in { <<"t","i","m","e">>, <<"d","a","t","e">>,
               <<"c","u","r","r","e","n","t">>, <<"t","o","d","a","y">>,
               <<"n","o","w">> } : Contains(Lower(query), w)

IsIn(name, contacted) == \E i \in 1..Len(contacted) : contacted[i] = name

(* C15: a search that returns contacts the backends in the order Brave,    *)
(* Bing, Google; it contacts Bing only when Brave yielded no result and    *)
(* Google only when Brave and Bing yielded none; it returns the first      *)
(* non-empty result set; and when all three yield nothing it returns the   *)
(* one synthetic time/date result if the query holds a time/date keyword,  *)
(* and the empty sequence otherwise.                                       *)
C15_FirstNonEmptyBackend ==
    (Returned_("search_google") /\ ~probe.output.raised) =>
        LET out == probe.output IN
        /\ out.contacted \in { <<"brave">>, <<"brave", "bing">>,
                               <<"brave", "bing", "google">> }
        /\ IsIn("bing", out.contacted) => BraveYield = <<>>
        /\ IsIn("google", out.contacted) => (BraveYield = <<>> /\ BingYield = <<>>)
        /\ out.results =
              IF BraveYield # <<>> THEN BraveYield
              ELSE IF BingYield # <<>> THEN BingYield
              ELSE IF GoogleYield # <<>> THEN GoogleYield
              ELSE IF HasTimeDateKeyword(probe.input.query) THEN <<SyntheticResult>>
              ELSE <<>>
        /\ out.results # <<>> =>
              \/ out.results = <<SyntheticResult>>
              \/ /\ out.contacted = <<"brave">> => out.results = BraveYield
                 /\ out.contacted = <<"brave", "bing">> => out.results = BingYield
                 /\ Len(out.contacted) = 3 => out.results = GoogleYield

\* Brave fails, Bing has no result, Google has two: all three are
\* contacted and Google's results returned
C15_Witness ==
    /\ Returned_("search_google")
    /\ probe.env.brave.kind = "timeout"
    /\ probe.env.bing = Found(<<>>)
    /\ probe.output.contacted = <<"brave", "bing", "google">>
    /\ probe.output.results = <<Result3, Result1>>

(* C16: search, scrape and search-and-scrape never raise; a search backend *)
(* that fails (network error, timeout, non-success status, parse error)    *)
(* counts as yielding no result and the next backend is still tried; a     *)
(* scrape that fails returns None.                                         *)
C16_SearchSideNeverRaises ==
    /\ Returned_("search_google") =>
          /\ ~probe.output.raised
          /\ probe.env.brave.kind \in FailureKinds =>
                /\ BraveYield = <<>>
                /\ IsIn("bing", probe.output.contacted)
          /\ (probe.env.brave.kind \in FailureKinds
                 /\ probe.env.bing.kind \in FailureKinds) =>
                /\ BingYield = <<>>
                /\ IsIn("google", probe.output.contacted)
    /\ Returned_("scrape_url") =>
          (probe.env.kind \in FailureKinds => probe.output = None)
    /\ Returned_("search_and_scrape") => ~probe.output.raised

(* C17: for every page text and every max_chars, the string scrape_url     *)
(* returns has at most max_chars + 3 characters; when the flattened text   *)
(* is longer than max_chars it is its first max_chars characters followed  *)
(* by "...", and otherwise the flattened text itself, with no marker.      *)
C17_ScrapeTruncates ==
    (Returned_("scrape_url") /\ probe.output # None) =>
        LET flat == Flatten(probe.env.text)
            max_chars == probe.input.max_chars
        IN  /\ Len(probe.output) <= max_chars + 3
            /\ Len(flat) > max_chars =>
                  probe.output = SubSeq(flat, 1, max_chars) \o <<".", ".", ".">>
            /\ Len(flat) <= max_chars => probe.output = flat

\* a page of two lines flattens to "a a"; with max_chars 2 the result is
\* "a ..."
C17_Witness ==
    /\ Returned_("scrape_url")
    /\ probe.input.max_chars = 2
    /\ probe.env = Page(<<"a", "\n", " ", "a">>)
    /\ probe.output = <<"a", " ", ".", ".", ".">>

\* a keyword of one of the three sets is a substring of the text
HoldsKeyword(text) ==
    \E keywords \in {time_date_keywords, institution_terms, search_indicators} :
        \E k \in 1..Len(keywords) : Contains(text, keywords[k])

(* C18: should_search_web changes no state (the application is as it was  *)
(* at start-up); it returns true exactly when the lower-cased query holds, *)
(* as a substring, a keyword of the time/date set, the institutional set   *)
(* or the indicator set; it returns false for the empty query, and the     *)
(* same for every upper/lower-case variant of a query.                     *)
C18_ShouldSearchIsKeywordTest ==
    Returned_("should_search_web") =>
        /\ InitApp
        /\ probe.output = HoldsKeyword(Lower(probe.input))
        /\ probe.input = <<>> => probe.output = FALSE
        /\ \A v \in CaseVariants(probe.input) :
              should_search_web(v) = probe.output

\* "UPdate" has "date" in it once lower-cased: searched
C18_Witness ==
    /\ Returned_("should_search_web")
    /\ probe.input = <<"U","P","d","a","t","e">>
    /\ probe.output = TRUE

\* the word occurs in the examined query, in either case
Says(word) == Contains(Lower(probe.input), word)

(* C19: extract_search_query decides without regard to case and in this    *)
(* order: a query with "time" and "india" gives "current time in India     *)
(* IST"; else one with "date" and "india" gives "current date in India";   *)
(* else one with "time" or "date" gives "current time and date"; only a    *)
(* query with neither "time" nor "date" is phrase-stripped.                *)
C19_ExtractPrecedence ==
    Returned_("extract_search_query") =>
        LET time == Says(<<"t","i","m","e">>)
            date == Says(<<"d","a","t","e">>)
            india == Says(<<"i","n","d","i","a">>)
        IN  /\ (time /\ india) => probe.output = <<"c","u","r","r","e","n","t"," ","t","i","m","e"," ","i","n"," ","I","n","d","i","a"," ","I","S","T">>
            /\ (~(time /\ india) /\ date /\ india) => probe.output = <<"c","u","r","r","e","n","t"," ","d","a","t","e"," ","i","n"," ","I","n","d","i","a">>
            /\ (~india /\ (time \/ date)) => probe.output = <<"c","u","r","r","e","n","t"," ","t","i","m","e"," ","a","n","d"," ","d","a","t","e">>
            /\ (time \/ date) =>
                  probe.output \in { <<"c","u","r","r","e","n","t"," ","t","i","m","e"," ","i","n"," ","I","n","d","i","a"," ","I","S","T">>,
                                     <<"c","u","r","r","e","n","t"," ","d","a","t","e"," ","i","n"," ","I","n","d","i","a">>,
                                     <<"c","u","r","r","e","n","t"," ","t","i","m","e"," ","a","n","d"," ","d","a","t","e">> }
            /\ ~(time \/ date) =>
                  probe.output = Strip(StripPhrases(probe.input, 1))

\* "INdia time date" has all three words: the time-in-India query wins
C19_Witness ==
    /\ Returned_("extract_search_query")
    /\ probe.input = <<"I","N","d","i","a"," ","t","i","m","e"," ","d","a","t","e">>
    /\ probe.output = QueryTimeIndia

\* U+FFFD, or a code point from 0x10000 up
Removed(c) == c = "U+FFFD" \/ Ord(c) >= 65536

\* the text without its removed characters, the others in their order
RECURSIVE WithoutRemoved(_)
WithoutRemoved(text) ==
    IF text = <<>> THEN <<>>
    ELSE (IF Removed(Head(text)) THEN <<>> ELSE <<Head(text)>>)
         \o WithoutRemoved(Tail(text))

(* C20: clean_text returns exactly its input without the U+FFFD characters *)
(* and the code points from 0x10000 up, the other characters in their      *)
(* original order; applied to its own result it changes nothing; and no    *)
(* character of its result is one of those it removes.                     *)
C20_CleanFiltersOnce ==
    Returned_("clean_text") =>
        /\ probe.output = WithoutRemoved(probe.input)
        /\ clean_text(probe.output) = probe.output
        /\ \A i \in 1..Len(probe.output) : ~Removed(probe.output[i])

\* a replacement character, a letter and an astral character: the letter
\* alone is left
C20_Witness ==
    /\ Returned_("clean_text")
    /\ probe.input = <<"U+FFFD", "a", "U+1F600">>
    /\ probe.output = <<"a">>

(***************************************************************************)
(* Properties of the session stores (specification Spec).                  *)
(***************************************************************************)
Kinds == {"chat", "stream"}

\* the request is over at once and has touched nothing: no session made,
\* no turn appended, nothing saved, no search and no model call
RefusedWith(status) ==
    /\ response'.status = status
    /\ ~response'.success
    /\ pc' = "idle"
    /\ UNCHANGED <<chat_sessions, anonymous_sessions, disk, uuids, model_name>>
    /\ netLog' = <<>>
    /\ call' = NoCall
    /\ events' = <<>>

\* an identified user names a session of the store that another user owns
NamesForeignSession(chat_id, user_id) ==
    /\ user_id \notin {Absent, ""}
    /\ chat_id \in DOMAIN chat_sessions
    /\ chat_sessions[chat_id].user_id # user_id

(* C21: a chat request, blocking or streaming, whose message is empty or   *)
(* only whitespace is refused with status 400, and one by an identified    *)
(* user naming an existing session of another user with status 403; in     *)
(* both cases no session is created, no turn appended, nothing saved, and  *)
(* neither the search nor the model is called.                             *)
C21_RefusedRequestsTouchNothing ==
    [][\A kind \in Kinds, chat_id \in ChatIdInputs, raw \in MessageInputs,
          user_id \in UserInputs, document_context \in DocumentInputs :
          ReceiveWith(kind, chat_id, raw, user_id, document_context) =>
             /\ (\A i \in 1..Len(raw) : raw[i] \in {" ", "\n", "\t"})
                   => RefusedWith(400)
             /\ ((\E i \in 1..Len(raw) : raw[i] \notin {" ", "\n", "\t"})
                   /\ NamesForeignSession(chat_id, user_id))
                   => RefusedWith(403)]_vars

\* user u2 has named session c1 of user u1 and was refused; the session is
\* as it was loaded
C21_Witness ==
    /\ req.outcome = "rejected"
    /\ response.status = 403
    /\ chat_sessions = disk
    /\ Len(chat_sessions["c1"].messages) = 2 * MaxExchanges
    /\ netLog = <<>>
    /\ call = NoCall

\* an older turn list is the beginning of a newer one
IsPrefixOf(old, new) == Len(old) <= Len(new) /\ SubSeq(new, 1, Len(old)) = old

\* what one step may do to a store: add the session of the request, and
\* append turns to it; every other session stays as it is
StoreKept(store, store_after, own) ==
    /\ DOMAIN store \subseteq DOMAIN store_after
    /\ DOMAIN store_after \ DOMAIN store \subseteq {own}
    /\ \A k \in DOMAIN store :
          /\ IsPrefixOf(store[k].messages, store_after[k].messages)
          /\ store_after[k].id = store[k].id
          /\ store_after[k].created_at = store[k].created_at
          /\ k # own => store_after[k] = store[k]

(* C22: a chat request changes the sessions only by appending turns to the *)
(* turn list of its own session (and setting that session's title and      *)
(* updated-at): a turn already in a session is never modified, reordered   *)
(* or removed, and every other session is left as it is.                   *)
C22_SessionsOnlyGrow ==
    [][/\ StoreKept(chat_sessions, chat_sessions', req'.chat_id)
       /\ StoreKept(anonymous_sessions, anonymous_sessions', req'.chat_id)
       /\ \A k \in DOMAIN chat_sessions :
             chat_sessions'[k].user_id = chat_sessions[k].user_id
       /\ req'.is_logged_in => anonymous_sessions' = anonymous_sessions
       /\ ~req'.is_logged_in => chat_sessions' = chat_sessions]_vars

\* the loaded session of 2 * MaxExchanges turns has been answered: the old
\* turns are its first turns still, and two follow
C22_Witness ==
    /\ req.outcome \in {"answered", "done"}
    /\ req.chat_id = "c1"
    /\ Len(chat_sessions["c1"].messages) = 2 * MaxExchanges + 2
    /\ SubSeq(chat_sessions["c1"].messages, 1, 2 * MaxExchanges)
          = PreloadedSession(2 * MaxExchanges).messages

(***************************************************************************)
(* C23.  Once a chat request on a session is over, with an answer, with a  *)
(* failure or with the browser gone, the session's turns alternate: every  *)
(* user turn is followed by an assistant turn.                             *)
(***************************************************************************)
Finished == {"answered", "failed", "done", "error", "abandoned"}

Alternates(messages) ==
    \A i \in 1..Len(messages) :
        /\ messages[i].role = (IF i % 2 = 1 THEN "user" ELSE "assistant")
        /\ messages[i].role = "user" =>
              i < Len(messages) /\ messages[i + 1].role = "assistant"

C23_TurnsAlternate ==
    (pc = "idle" /\ req.outcome \in Finished) => Alternates(Session.messages)

(***************************************************************************)
(* C27.  For the same user message, history, document context and search   *)
(* bundle the blocking handler and the streaming handler compose the same  *)
(* message sequence, system message included: whatever one handler hands   *)
(* to the model client is what the other would have composed.              *)
(***************************************************************************)
ComposedBy(kind) ==
    Compose(SystemPrompt(kind), req.history, req.document_context,
            WebContext(req.web_data), req.message)

C27_PathsComposeAlike ==
    Composed => \A kind \in Kinds : call.messages = ComposedBy(kind)

(***************************************************************************)
(* Properties of concurrent model calls (specification SpecThreads).       *)
(***************************************************************************)
\* the model names the endpoint has listed in its error answers so far
Listed == UNION {{threads[u].err.names[i] : i \in 1..Len(threads[u].err.names)} : u \in Threads}

Retried(t) == threads[t].at = "done" /\ Len(threads[t].sent) = 2

(* C24: under any interleaving of concurrent blocking calls on the shared  *)
(* client, the retry request of a call names the first alternative listed  *)
(* in that call's own error response, and the model name of every request  *)
(* is the configured initial model or an alternative the endpoint listed.  *)
C24_RetryNamesOwnAlternative ==
    \A t \in Threads :
        /\ Retried(t) => threads[t].sent[2] = Candidates(threads[t].err)[1]
        /\ \A i \in 1..Len(threads[t].sent) :
              threads[t].sent[i] \in {InitialModel} \cup Listed

\* the second half alone
OnlyKnownModelsSent ==
    \A t \in Threads : \A i \in 1..Len(threads[t].sent) :
        threads[t].sent[i] \in {InitialModel} \cup Listed

(***************************************************************************)
(* Properties of the persisted store (specification SpecSessions).         *)
(***************************************************************************)
\* a step of a chat request
ChatStep == pc # "idle" \/ pc' # "idle"

(* C25: the persisted store holds only sessions with a non-empty owner id; *)
(* a chat request without a user id never creates or appends to an entry   *)
(* of the persisted store and never saves, and the id of an anonymous      *)
(* session is never a key of the persisted store.                          *)
C25_PersistedSessionsHaveOwners ==
    [][/\ \A k \in DOMAIN chat_sessions' : ~Falsy(chat_sessions'[k].user_id)
       /\ \A k \in DOMAIN disk' : ~Falsy(disk'[k].user_id)
       /\ DOMAIN anonymous_sessions' \cap DOMAIN chat_sessions' = {}
       /\ (ChatStep /\ ~req'.is_logged_in) => UNCHANGED <<chat_sessions, disk>>]_vars

\* the turns of a persisted session differ after the step
TurnsChanged(k) ==
    k \in DOMAIN chat_sessions' /\ chat_sessions'[k].messages # chat_sessions[k].messages

\* the keys the step removed from the persisted store
Deleted == DOMAIN chat_sessions \ DOMAIN chat_sessions'

\* the response of the step hands out no session
NothingReturned == response'.chat = NoSession /\ response'.chats = <<>>

\* the request was served from a session that did not exist before it
ServedFresh ==
    /\ req'.chat_id \notin DOMAIN chat_sessions \cup DOMAIN anonymous_sessions
    /\ req'.chat_id \in DOMAIN chat_sessions' \cup DOMAIN anonymous_sessions'
    /\ chat_sessions' = chat_sessions \/ req'.is_logged_in

Owns(user_id, chat_id) ==
    chat_id \in DOMAIN chat_sessions /\ chat_sessions[chat_id].user_id = user_id

(* C26: over any sequence of new-chat, chat, chat-stream, get-chat,        *)
(* list-chats and delete-chat requests the owner id of a persisted session *)
(* never changes; its turns are returned, appended to or deleted only by   *)
(* requests carrying the owner's user id; a request naming it with another *)
(* user id or none is refused or served from a fresh session.              *)
C26_OnlyOwnerReachesSession ==
    [][/\ \A k \in DOMAIN chat_sessions \cap DOMAIN chat_sessions' :
             chat_sessions'[k].user_id = chat_sessions[k].user_id
       /\ \A k \in DOMAIN chat_sessions :
             TurnsChanged(k) =>
                 ChatStep /\ req'.chat_id = k /\ req'.user_id = chat_sessions[k].user_id
       /\ ChatStep => NothingReturned /\ Deleted = {}
       /\ \A user_id \in BodyUsers :
             NewChatWith(user_id) => NothingReturned /\ Deleted = {}
       /\ \A user_id \in QueryUsers :
             GetChatsWith(user_id) =>
                 /\ response'.chat = NoSession
                 /\ \A i \in 1..Len(response'.chats) :
                       response'.chats[i].user_id = user_id
                 /\ Deleted = {}
       /\ \A chat_id \in PathIds, user_id \in QueryUsers :
             /\ GetChatWith(chat_id, user_id) =>
                   /\ Deleted = {}
                   /\ IF Owns(user_id, chat_id)
                      THEN response'.chat = chat_sessions[chat_id]
                      ELSE ~response'.success /\ NothingReturned
             /\ DeleteChatWith(chat_id, user_id) =>
                   /\ NothingReturned
                   /\ Deleted = IF Owns(user_id, chat_id) THEN {chat_id} ELSE {}
                   /\ (chat_id \in DOMAIN chat_sessions /\ ~Owns(user_id, chat_id))
                         => ~response'.success
       /\ \A kind \in Kinds, chat_id \in DOMAIN chat_sessions, raw \in SessionMessages,
             user_id \in BodyUsers :
             (~Owns(user_id, chat_id)
                 /\ ReceiveWith(kind, chat_id, raw, user_id, None)) =>
                 \/ RefusedWith(400) \/ RefusedWith(403)
                 \/ ServedFresh /\ ~req'.is_logged_in]_vars

\* new-chat by u2, a chat of u2 on the new session answered, then u1 asks
\* for that session and is refused
C26_Witness ==
    /\ ops = MaxOps
    /\ "uuid-1" \in DOMAIN chat_sessions
    /\ chat_sessions["uuid-1"].user_id = "u2"
    /\ Len(chat_sessions["uuid-1"].messages) = 2
    /\ req.chat_id = "uuid-1" /\ req.outcome \in {"answered", "done"}
    /\ response.status = 403
    /\ disk = chat_sessions

====
